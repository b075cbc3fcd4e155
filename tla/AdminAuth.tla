------------------------------ MODULE AdminAuth ------------------------------
(***************************************************************************)
(* The administrator's account, its sessions and the limit on failed       *)
(* logins: AdminAuthService (services/admin_auth.py), the guard            *)
(* require_admin (api/routes.py) and the routes that create the account,   *)
(* log in, log out and complete the setup (api/setup_routes.py).           *)
(*                                                                         *)
(* The service awaits nothing, so its calls do not overlap.  Sessions and  *)
(* failures are in memory only; the account is in settings.json.  Time is  *)
(* a clock that ticks between calls.                                       *)
(***************************************************************************)
EXTENDS Naturals, FiniteSets

CONSTANTS
    Names,      \* user names
    Nobody,     \* no user name
    Tokens,     \* session tokens; none is drawn twice (secrets.token_urlsafe)
    NoToken,    \* a request without a cookie, or without X-CSRF-Token
    Addresses,  \* the clients whose failures are counted together (rate_key)
    Limit,      \* 5 failures ...
    Window,     \* ... in 300 seconds
    Lifetime,   \* of a session: twelve hours
    MaxClock,   \* bound: the last tick
    MaxAttempts \* bound: the number of wrong passwords

ASSUME AdminAssumption ==
    /\ Nobody \notin Names /\ NoToken \notin Tokens
    /\ Limit \in Nat /\ Window \in Nat /\ Lifetime \in Nat
    /\ MaxClock \in Nat /\ MaxAttempts \in Nat

VARIABLES
    clock,
    env,        \* DASHBOARD_USERNAME and _PASSWORD: whose they are, if given
    admin,      \* the administrator of settings.json
    completed,  \* is the setup completed?
    issued,     \* history: the tokens that were ever given out
    expires,    \* _sessions: when the session of a token expires; 0: none
    failures,   \* _failures: the deque of each address
    log,        \* history: the failures since the last success of an address
    attempts    \* history: how many wrong passwords there were

account == <<env, admin, completed>>
sessions == <<issued, expires>>
limits == <<failures, log, attempts>>
vars == <<clock, account, sessions, limits>>

\* An entry of a deque: the number of the attempt, and its time.
Attempt == [n : Nat, at : Nat]

\* Credentials of the environment complete the setup of a legacy installation.
Init ==
    /\ clock = 0
    /\ env \in Names \cup {Nobody}
    /\ admin \in Names \cup {Nobody}
    /\ completed \in IF admin = Nobody /\ env = Nobody THEN {FALSE} ELSE BOOLEAN
    /\ issued = {}
    /\ expires = [t \in Tokens |-> 0]
    /\ failures = [a \in Addresses |-> {}]
    /\ log = [a \in Addresses |-> {}]
    /\ attempts = 0

-----------------------------------------------------------------------------
(* Sessions.                                                               *)

Live(t) == t \in Tokens /\ expires[t] > clock

\* session(): a token that is not live is dropped.
Seen(t) ==
    IF t \in Tokens /\ ~ Live(t) THEN [expires EXCEPT ![t] = 0] ELSE expires

\* Mutant: the twelve hours begin again with the next login.
RenewSession(t) ==
    /\ t \in Tokens
    /\ issued' = issued \cup {t}
    /\ expires' = [expires EXCEPT ![t] = clock + Lifetime]

IssueSession(t) ==
    /\ t \in Tokens \ issued
    /\ issued' = issued \cup {t}
    /\ expires' = [expires EXCEPT ![t] = clock + Lifetime]

-----------------------------------------------------------------------------
(* _check_rate_limit: entries are dropped from the head of the deque, the   *)
(* oldest first, as long as they are 300 seconds old.                      *)

Young(x, time) == x.at + Window > time

Recent(a) == {x \in failures[a] : Young(x, clock)}

Limited(a) == Cardinality(Recent(a)) >= Limit

-----------------------------------------------------------------------------
(* login.  The credentials of the environment are only compared when the    *)
(* name is not the administrator's.                                        *)

LoginLimited(a) ==
    /\ Limited(a)
    /\ failures' = [failures EXCEPT ![a] = Recent(a)]
    /\ UNCHANGED <<clock, account, sessions, log, attempts>>

\* Mutant: all addresses share one window.
LoginFailsForAll(a) ==
    /\ ~ Limited(a)
    /\ attempts < MaxAttempts
    /\ LET x == [n |-> attempts, at |-> clock]
       IN /\ failures' = [b \in Addresses |-> Recent(b) \cup {x}]
          /\ log' = [log EXCEPT ![a] = @ \cup {x}]
    /\ attempts' = attempts + 1
    /\ UNCHANGED <<clock, account, sessions>>

\* Mutant: the limit is one attempt too late.
LoginFailsLate(a) ==
    /\ Cardinality(Recent(a)) <= Limit
    /\ attempts < MaxAttempts
    /\ LET x == [n |-> attempts, at |-> clock]
       IN /\ failures' = [failures EXCEPT ![a] = Recent(a) \cup {x}]
          /\ log' = [log EXCEPT ![a] = @ \cup {x}]
    /\ attempts' = attempts + 1
    /\ UNCHANGED <<clock, account, sessions>>

\* Mutant: the entry keeps the time from which the window counts.
LoginFailsBackdated(a) ==
    /\ ~ Limited(a)
    /\ attempts < MaxAttempts
    /\ LET x == [n |-> attempts, at |-> clock - Window]
       IN /\ failures' = [failures EXCEPT ![a] = Recent(a) \cup {x}]
          /\ log' = [log EXCEPT ![a] = @ \cup {x}]
    /\ attempts' = attempts + 1
    /\ UNCHANGED <<clock, account, sessions>>

LoginFails(a) ==
    /\ ~ Limited(a)
    /\ attempts < MaxAttempts
    /\ LET x == [n |-> attempts, at |-> clock]
       IN /\ failures' = [failures EXCEPT ![a] = Recent(a) \cup {x}]
          /\ log' = [log EXCEPT ![a] = @ \cup {x}]
    /\ attempts' = attempts + 1
    /\ UNCHANGED <<clock, account, sessions>>

\* (The password is the one that belongs to the name.)
LoginSucceeds(a, name) ==
    /\ ~ Limited(a)
    /\ name \in {admin, env} \cap Names
    /\ \E t \in Tokens : IssueSession(t)
    /\ failures' = [failures EXCEPT ![a] = {}]
    /\ log' = [log EXCEPT ![a] = {}]
    /\ UNCHANGED <<clock, account, attempts>>

(* create_admin: the save may fail before or after the file is replaced,   *)
(* and then no session is issued.                                          *)
CreateAdmin(name) ==
    /\ ~ completed
    /\ admin = Nobody
    /\ admin' = name
    /\ \/ \E t \in Tokens : IssueSession(t)
       \/ UNCHANGED sessions
    /\ UNCHANGED <<clock, env, completed, limits>>

-----------------------------------------------------------------------------
(* The guard of what changes something, require_admin.  c is the session    *)
(* cookie, h = c: the request carries the CSRF token of that session,       *)
(* basic: it carries the credentials of the environment.                    *)

MayChange(c, h, basic) ==
    IF Live(c) THEN h = c ELSE admin = Nobody /\ env # Nobody /\ basic

Cookies == Tokens \cup {NoToken}

\* Any request, granted or not, looks up its cookie.  That is all that a wrong
\* password of the environment's credentials changes: _failures counts the
\* login route only.
Request(c) ==
    /\ c \in Tokens
    /\ expires' = Seen(c)
    /\ UNCHANGED <<clock, account, issued, limits>>

Logout(c, h, basic) ==
    /\ MayChange(c, h, basic)
    /\ expires' = IF c \in Tokens THEN [expires EXCEPT ![c] = 0] ELSE expires
    /\ UNCHANGED <<clock, account, issued, limits>>

\* (The other checks of the setup are those of Configuration.)
CompleteSetup(c, h, basic) ==
    /\ MayChange(c, h, basic)
    /\ admin # Nobody \/ env # Nobody
    /\ completed' = TRUE
    /\ expires' = Seen(c)
    /\ UNCHANGED <<clock, env, admin, issued, limits>>

-----------------------------------------------------------------------------
Tick ==
    /\ clock < MaxClock
    /\ clock' = clock + 1
    /\ UNCHANGED <<account, sessions, limits>>

Restart ==
    /\ expires' = [t \in Tokens |-> 0]
    /\ failures' = [a \in Addresses |-> {}]
    /\ log' = [a \in Addresses |-> {}]
    /\ UNCHANGED <<clock, account, issued, attempts>>

Login ==
    \E a \in Addresses :
        LoginLimited(a) \/ LoginFails(a) \/ \E name \in Names : LoginSucceeds(a, name)

Requests ==
    \E c \in Cookies :
        \/ Request(c)
        \/ \E h \in {c, NoToken}, basic \in BOOLEAN :
            Logout(c, h, basic) \/ CompleteSetup(c, h, basic)

Next ==
    \/ Login
    \/ \E name \in Names : CreateAdmin(name)
    \/ Requests
    \/ Tick
    \/ Restart

Spec == Init /\ [][Next]_vars

-----------------------------------------------------------------------------
(* Type invariant: the values each part of the state may take.             *)
TypeOK ==
    /\ clock \in Nat
    /\ env \in Names \cup {Nobody} /\ admin \in Names \cup {Nobody}
    /\ completed \in BOOLEAN
    /\ issued \subseteq Tokens
    /\ expires \in [Tokens -> Nat]
    /\ failures \in [Addresses -> SUBSET Attempt]
    /\ log \in [Addresses -> SUBSET Attempt]
    /\ attempts \in Nat

(* "Login failures are rate-limited" (README.md): of the wrong passwords    *)
(* an address has sent to the login route since its last login or the last  *)
(* restart, no attempt saw more than Limit within one Window, itself        *)
(* included, whatever the refused logins, the expired entries and the other *)
(* addresses did to the deque.  (The credentials of HTTP basic              *)
(* authentication, which any other route takes, are not counted.)          *)
AttemptsAreLimited ==
    \A a \in Addresses : \A x \in log[a] :
        Cardinality({y \in log[a] : y.n <= x.n /\ Young(y, x.at)}) <= Limit

(* The limit is never hit without a cause: an address is locked out only    *)
(* while Limit of its own wrong passwords are younger than the Window, so   *)
(* refused logins do not prolong the lock, and no one else's cause it.      *)
LockedForACause ==
    \A a \in Addresses :
        Limited(a) => Cardinality({x \in log[a] : Young(x, clock)}) >= Limit

(* A session that has ended, by logout, expiry or restart, never authorizes *)
(* a request again: later logins give out other tokens.                     *)
EndedStaysEnded ==
    [][\A t \in issued : ~ Live(t) => ~ Live(t)']_vars
=============================================================================
