--------------------------- MODULE AdminAuthProofs ---------------------------
(***************************************************************************)
(* Safety of AdminAuth for every set of tokens and addresses and every     *)
(* limit, window and lifetime.                                             *)
(***************************************************************************)
EXTENDS AdminAuth, FiniteSetTheorems, TLAPS

LEMMA InitTypes == Init => TypeOK
<1> SUFFICES ASSUME Init PROVE TypeOK
    OBVIOUS
<1>1. completed \in BOOLEAN
  BY DEF Init
<1> QED BY <1>1, AdminAssumption DEF Init, TypeOK

LEMMA NextTypes == TypeOK /\ [Next]_vars => TypeOK'
<1> SUFFICES ASSUME TypeOK, [Next]_vars
             PROVE  TypeOK'
    OBVIOUS
<1> USE AdminAssumption DEF TypeOK, account, sessions, limits
<1>1. ASSUME NEW a \in Addresses, LoginLimited(a)
      PROVE  TypeOK'
  BY <1>1 DEF LoginLimited, Recent
<1>2. ASSUME NEW a \in Addresses, LoginFails(a)
      PROVE  TypeOK'
  <2> DEFINE x == [n |-> attempts, at |-> clock]
  <2>1. x \in Attempt /\ Recent(a) \subseteq Attempt
    BY DEF Attempt, Recent
  <2>2. /\ failures' = [failures EXCEPT ![a] = Recent(a) \cup {x}]
        /\ log' = [log EXCEPT ![a] = @ \cup {x}]
    BY <1>2 DEF LoginFails
  <2>3. log[a] \subseteq Attempt
    OBVIOUS
  <2> HIDE DEF x
  <2>4. failures' \in [Addresses -> SUBSET Attempt] /\ log' \in [Addresses -> SUBSET Attempt]
    BY <2>1, <2>2, <2>3
  <2> QED BY <1>2, <2>4 DEF LoginFails
<1>3. ASSUME NEW a \in Addresses, NEW name \in Names, LoginSucceeds(a, name)
      PROVE  TypeOK'
  BY <1>3 DEF LoginSucceeds, IssueSession
<1>4. ASSUME NEW name \in Names, CreateAdmin(name)
      PROVE  TypeOK'
  BY <1>4 DEF CreateAdmin, IssueSession
<1>5. ASSUME NEW c \in Cookies, Request(c)
      PROVE  TypeOK'
  BY <1>5 DEF Request, Seen
<1>6. ASSUME NEW c \in Cookies, NEW h, NEW basic, Logout(c, h, basic) \/ CompleteSetup(c, h, basic)
      PROVE  TypeOK'
  <2>1. expires' \in [Tokens -> Nat]
    BY <1>6 DEF Logout, CompleteSetup, Seen
  <2>2. completed' \in BOOLEAN
    BY <1>6 DEF Logout, CompleteSetup
  <2> QED BY <1>6, <2>1, <2>2 DEF Logout, CompleteSetup
<1>7. CASE Tick \/ Restart
  BY <1>7 DEF Tick, Restart
<1>8. CASE UNCHANGED vars
  BY <1>8 DEF vars
<1> QED BY <1>1, <1>2, <1>3, <1>4, <1>5, <1>6, <1>7, <1>8 DEF Next, Login, Requests

(* The parts of the state keep their types.                                *)
THEOREM TypeCorrect == Spec => []TypeOK
BY InitTypes, NextTypes, PTL DEF Spec

-----------------------------------------------------------------------------
(* Sessions.                                                               *)

(* What an action does to the table of sessions: it leaves a token alone,   *)
(* takes it out, or gives out one that was never given out before.          *)
LEMMA TokensChange ==
    ASSUME TypeOK, [Next]_vars
    PROVE  /\ clock' >= clock
           /\ \A t \in issued : expires'[t] = expires[t] \/ expires'[t] = 0
<1> USE AdminAssumption DEF TypeOK, account, sessions, limits
<1>1. ASSUME NEW a \in Addresses, LoginLimited(a) \/ LoginFails(a)
      PROVE  clock' = clock /\ expires' = expires
  BY <1>1 DEF LoginLimited, LoginFails
<1>2. ASSUME NEW t \in Tokens, IssueSession(t)
      PROVE  \A s \in issued : expires'[s] = expires[s]
  BY <1>2 DEF IssueSession
<1>3. ASSUME NEW a \in Addresses, NEW name \in Names, LoginSucceeds(a, name)
      PROVE  clock' = clock /\ \A t \in issued : expires'[t] = expires[t]
  BY <1>3, <1>2 DEF LoginSucceeds
<1>4. ASSUME NEW name \in Names, CreateAdmin(name)
      PROVE  clock' = clock /\ \A t \in issued : expires'[t] = expires[t]
  BY <1>4, <1>2 DEF CreateAdmin
<1>5. ASSUME NEW c \in Cookies, Request(c)
      PROVE  clock' = clock /\ \A t \in issued : expires'[t] = expires[t] \/ expires'[t] = 0
  BY <1>5 DEF Request, Seen
<1>6. ASSUME NEW c \in Cookies, NEW h, NEW basic, Logout(c, h, basic) \/ CompleteSetup(c, h, basic)
      PROVE  clock' = clock /\ \A t \in issued : expires'[t] = expires[t] \/ expires'[t] = 0
  BY <1>6 DEF Logout, CompleteSetup, Seen
<1>7. CASE Tick \/ Restart
  BY <1>7 DEF Tick, Restart
<1>8. CASE UNCHANGED vars
  BY <1>8 DEF vars
<1> QED BY <1>1, <1>3, <1>4, <1>5, <1>6, <1>7, <1>8 DEF Next, Login, Requests

(* A session that has ended (admin_auth.py) never authorizes a request      *)
(* again, whatever logins, look-ups, logouts and restarts follow.           *)
THEOREM EndedSessionsStayEnded == Spec => EndedStaysEnded
<1>1. ASSUME TypeOK, [Next]_vars
      PROVE  \A t \in issued : ~ Live(t) => ~ Live(t)'
  <2> SUFFICES ASSUME NEW t \in issued, ~ Live(t)
               PROVE  ~ Live(t)'
      OBVIOUS
  <2>1. /\ clock' >= clock
        /\ expires'[t] = expires[t] \/ expires'[t] = 0
    BY <1>1, TokensChange
  <2>2. t \in Tokens /\ clock \in Nat /\ clock' \in Nat /\ expires[t] \in Nat
    BY <1>1, NextTypes DEF TypeOK
  <2>3. expires[t] <= clock
    BY <2>2 DEF Live
  <2>4. ~ (expires'[t] > clock')
    BY <2>1, <2>2, <2>3
  <2> QED BY <2>4 DEF Live
<1> QED BY <1>1, TypeCorrect, PTL DEF Spec, EndedStaysEnded

-----------------------------------------------------------------------------
(* Failures.                                                               *)

(* The deque of an address holds all its failures but old ones, and every   *)
(* failure is numbered and dated before the present.                        *)
LogOf(a) ==
    /\ failures[a] \subseteq log[a]
    /\ IsFiniteSet(log[a])
    /\ \A x \in log[a] \ failures[a] : ~ Young(x, clock)
    /\ \A x \in log[a] : x.n < attempts /\ x.at <= clock

Earlier(S, x) == {y \in S : y.n <= x.n /\ Young(y, x.at)}

LimitInv ==
    /\ TypeOK
    /\ \A a \in Addresses : LogOf(a)
    /\ AttemptsAreLimited
LEMMA InitLimit == Init => LimitInv
<1> SUFFICES ASSUME Init PROVE LimitInv
    OBVIOUS
<1>1. \A a \in Addresses : failures[a] = {} /\ log[a] = {}
  BY DEF Init
<1> QED BY <1>1, InitTypes, FS_EmptySet DEF LimitInv, LogOf, AttemptsAreLimited

(* The entries that are still counted are all the recent failures.         *)
LEMMA RecentCovers ==
    ASSUME LimitInv, NEW a \in Addresses
    PROVE  /\ IsFiniteSet(Recent(a)) /\ Cardinality(Recent(a)) \in Nat
           /\ {y \in log[a] : Young(y, clock)} = Recent(a)
<1>1. Recent(a) \subseteq log[a] /\ IsFiniteSet(log[a])
  BY DEF LimitInv, LogOf, Recent
<1>2. IsFiniteSet(Recent(a))
  BY <1>1, FS_Subset
<1>3. {y \in log[a] : Young(y, clock)} = Recent(a)
  BY DEF LimitInv, LogOf, Recent
<1> QED BY <1>2, <1>3, FS_CardinalityType

(* A wrong password is let through only when fewer than Limit are recent,   *)
(* so that there are at most Limit with it.                                *)
LEMMA FailureKeepsLimit ==
    ASSUME LimitInv, NEW a \in Addresses, LoginFails(a)
    PROVE  /\ \A b \in Addresses : LogOf(b)'
           /\ AttemptsAreLimited'
<1> DEFINE x == [n |-> attempts, at |-> clock]
<1>1. /\ ~ (Cardinality(Recent(a)) >= Limit)
      /\ failures' = [failures EXCEPT ![a] = Recent(a) \cup {x}]
      /\ log' = [log EXCEPT ![a] = @ \cup {x}]
      /\ attempts' = attempts + 1 /\ clock' = clock
  BY DEF LoginFails, Limited
<1>2. /\ clock \in Nat /\ attempts \in Nat /\ Limit \in Nat /\ Window \in Nat
      /\ failures \in [Addresses -> SUBSET Attempt] /\ log \in [Addresses -> SUBSET Attempt]
  BY AdminAssumption DEF LimitInv, TypeOK
<1>3. x.n = attempts /\ x.at = clock /\ x \in Attempt
  BY <1>2 DEF Attempt
<1> HIDE DEF x
<1>4. \A b \in Addresses : log[b] \subseteq Attempt
                          /\ \A y \in log[b] : y.n < attempts /\ y.at <= clock /\ y.n \in Nat /\ y.at \in Nat
  BY <1>2 DEF LimitInv, LogOf, Attempt
<1>5. /\ failures'[a] = Recent(a) \cup {x} /\ log'[a] = log[a] \cup {x}
      /\ \A b \in Addresses \ {a} : failures'[b] = failures[b] /\ log'[b] = log[b]
  BY <1>1, <1>2
<1>6. LogOf(a)'
  <2>1. failures'[a] \subseteq log'[a]
    BY <1>5 DEF LimitInv, LogOf, Recent
  <2>2. IsFiniteSet(log'[a])
    <3>1. IsFiniteSet(log[a])
      BY DEF LimitInv, LogOf
    <3>2. IsFiniteSet(log[a] \cup {x})
      BY <3>1, FS_AddElement
    <3> QED BY <1>5, <3>2
  <2>3. \A y \in log'[a] \ failures'[a] : ~ Young(y, clock')
    BY <1>1, <1>5 DEF LimitInv, LogOf, Recent, Young
  <2>4. \A y \in log'[a] : y.n < attempts' /\ y.at <= clock'
    BY <1>1, <1>2, <1>3, <1>4, <1>5
  <2> QED BY <2>1, <2>2, <2>3, <2>4 DEF LogOf, Young
<1>7. ASSUME NEW b \in Addresses, b # a
      PROVE  LogOf(b)'
  <2>1. LogOf(b)
    BY DEF LimitInv
  <2>2. failures'[b] = failures[b] /\ log'[b] = log[b]
    BY <1>5, <1>7
  <2>3. \A y \in log'[b] : y.n < attempts' /\ y.at <= clock'
    BY <1>1, <1>2, <1>4, <2>2
  <2> QED BY <1>1, <2>1, <2>2, <2>3 DEF LogOf, Young
<1>8. ASSUME NEW y \in log[a]
      PROVE  Cardinality(Earlier(log'[a], y)) <= Limit
  <2>1. Earlier(log'[a], y) = Earlier(log[a], y)
    BY <1>2, <1>3, <1>4, <1>5 DEF Earlier
  <2> QED BY <2>1 DEF LimitInv, AttemptsAreLimited, Earlier
<1>9. Cardinality(Earlier(log'[a], x)) <= Limit
  <2>1. Earlier(log'[a], x) \subseteq Recent(a) \cup {x}
    BY <1>3, <1>5, RecentCovers DEF Earlier
  <2>2. IsFiniteSet(Recent(a)) /\ Cardinality(Recent(a)) \in Nat
    BY RecentCovers
  <2>3. /\ IsFiniteSet(Recent(a) \cup {x})
        /\ Cardinality(Recent(a) \cup {x}) <= Cardinality(Recent(a)) + 1
    <3>1. /\ IsFiniteSet(Recent(a) \cup {x})
          /\ Cardinality(Recent(a) \cup {x}) =
                IF x \in Recent(a) THEN Cardinality(Recent(a)) ELSE Cardinality(Recent(a)) + 1
      BY <2>2, FS_AddElement
    <3> QED BY <2>2, <3>1
  <2>4. Cardinality(Earlier(log'[a], x)) <= Cardinality(Recent(a) \cup {x})
    BY <2>1, <2>3, FS_Subset
  <2>5. Cardinality(Recent(a)) + 1 <= Limit
    BY <1>1, <1>2, <2>2
  <2>6. Cardinality(Recent(a) \cup {x}) \in Nat /\ Cardinality(Earlier(log'[a], x)) \in Nat
    BY <2>1, <2>3, FS_Subset, FS_CardinalityType
  <2> QED BY <1>2, <2>2, <2>3, <2>4, <2>5, <2>6
<1>10. AttemptsAreLimited'
  <2>1. ASSUME NEW b \in Addresses, NEW y \in log'[b]
        PROVE  Cardinality(Earlier(log'[b], y)) <= Limit
    <3>1. CASE b # a
      BY <1>5, <2>1, <3>1 DEF LimitInv, AttemptsAreLimited, Earlier
    <3>2. CASE b = a
      BY <1>5, <1>8, <1>9, <2>1, <3>2
    <3> QED BY <3>1, <3>2
  <2> QED BY <2>1 DEF AttemptsAreLimited, Earlier, Young
<1> QED BY <1>6, <1>7, <1>10
(* Every other action leaves an address what it has, forgets old entries of *)
(* its deque, or forgets all its failures.                                  *)
LEMMA LogChanges ==
    ASSUME LimitInv, [Next]_vars, NEW b \in Addresses,
           ~ \E a \in Addresses : LoginFails(a)
    PROVE  /\ attempts' = attempts
           /\ \/ log'[b] = log[b] /\ failures'[b] = failures[b]
              \/ log'[b] = log[b] /\ failures'[b] = Recent(b) /\ clock' = clock
              \/ log'[b] = {} /\ failures'[b] = {}
<1> USE DEF account, sessions, limits
<1>1. failures \in [Addresses -> SUBSET Attempt] /\ log \in [Addresses -> SUBSET Attempt]
  BY DEF LimitInv, TypeOK
<1>2. ASSUME NEW a \in Addresses, LoginLimited(a)
      PROVE  /\ attempts' = attempts /\ log' = log /\ clock' = clock
             /\ failures'[b] = failures[b] \/ failures'[b] = Recent(b)
  BY <1>1, <1>2 DEF LoginLimited
<1>3. ASSUME NEW a \in Addresses, NEW name \in Names, LoginSucceeds(a, name)
      PROVE  /\ attempts' = attempts
             /\ \/ log'[b] = log[b] /\ failures'[b] = failures[b]
                \/ log'[b] = {} /\ failures'[b] = {}
  BY <1>1, <1>3 DEF LoginSucceeds
<1>4. ASSUME NEW name \in Names, CreateAdmin(name)
      PROVE  UNCHANGED limits
  BY <1>4 DEF CreateAdmin
<1>5. ASSUME NEW c \in Cookies, NEW h, NEW basic,
             Request(c) \/ Logout(c, h, basic) \/ CompleteSetup(c, h, basic)
      PROVE  UNCHANGED limits
  BY <1>5 DEF Request, Logout, CompleteSetup
<1>6. CASE Tick
  BY <1>6 DEF Tick
<1>7. CASE Restart
  BY <1>7 DEF Restart
<1>8. CASE UNCHANGED vars
  BY <1>8 DEF vars
<1> QED BY <1>2, <1>3, <1>4, <1>5, <1>6, <1>7, <1>8 DEF Next, Login, Requests

LEMMA NextLimit == LimitInv /\ [Next]_vars => LimitInv'
<1> SUFFICES ASSUME LimitInv, [Next]_vars
             PROVE  LimitInv'
    OBVIOUS
<1>1. TypeOK'
  BY NextTypes DEF LimitInv
<1>2. CASE \E a \in Addresses : LoginFails(a)
  BY <1>1, <1>2, FailureKeepsLimit DEF LimitInv
<1>3. CASE ~ \E a \in Addresses : LoginFails(a)
  <2>1. clock' >= clock /\ clock \in Nat /\ clock' \in Nat /\ Window \in Nat
    BY <1>1, TokensChange, AdminAssumption DEF LimitInv, TypeOK
  <2>2. ASSUME NEW b \in Addresses
        PROVE  LogOf(b)'
    <3>1. \A x \in log[b] : x.at \in Nat
      BY DEF LimitInv, TypeOK, Attempt
    <3>2. LogOf(b)
      BY DEF LimitInv
    <3>3. \A x \in log[b] : ~ Young(x, clock) => ~ Young(x, clock')
      BY <2>1, <3>1 DEF Young
    <3>4. CASE log'[b] = {} /\ failures'[b] = {}
      BY <3>4, FS_EmptySet DEF LogOf
    <3>5. CASE log'[b] = log[b] /\ failures'[b] \in {failures[b], Recent(b)}
      <4>1. failures'[b] \subseteq log'[b] /\ IsFiniteSet(log'[b])
        BY <3>2, <3>5 DEF LogOf, Recent
      <4>2. \A x \in log'[b] \ failures'[b] : ~ Young(x, clock')
        BY <3>2, <3>3, <3>5 DEF LogOf, Recent
      <4>3. \A x \in log'[b] : x.n < attempts' /\ x.at <= clock'
        BY <1>3, <2>1, <3>1, <3>2, <3>5, LogChanges DEF LogOf
      <4> QED BY <4>1, <4>2, <4>3 DEF LogOf, Young
    <3> QED BY <1>3, <3>4, <3>5, LogChanges
  <2>3. AttemptsAreLimited'
    <3>1. \A b \in Addresses : log'[b] = log[b] \/ log'[b] = {}
      BY <1>3, LogChanges
    <3> QED BY <3>1 DEF LimitInv, AttemptsAreLimited, Young
  <2> QED BY <1>1, <2>2, <2>3 DEF LimitInv
<1> QED BY <1>2, <1>3

THEOREM LimitInvariant == Spec => []LimitInv
BY InitLimit, NextLimit, PTL DEF Spec

(* "Login failures are rate-limited" (README.md): in no Window does an      *)
(* address get more than Limit wrong passwords judged (admin_auth.py).      *)
THEOREM FailuresAreLimited == Spec => []AttemptsAreLimited
BY LimitInvariant, PTL DEF LimitInv

(* An address is locked out only for Limit recent failures of its own.      *)
THEOREM LocksHaveACause == Spec => []LockedForACause
<1>1. LimitInv => LockedForACause
  BY RecentCovers DEF LockedForACause, Limited
<1> QED BY <1>1, LimitInvariant, PTL
=============================================================================
