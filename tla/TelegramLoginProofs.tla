------------------------- MODULE TelegramLoginProofs -------------------------
(***************************************************************************)
(* Safety of TelegramLogin for every set of client objects.                *)
(***************************************************************************)
EXTENDS TelegramLogin, TLAPS

(* What an operation knows of its client between two awaits: send_code has *)
(* no pending login beside its own client, and a verification works on the *)
(* client of the pending login.  Without it neither invariant is inductive.*)
OpOwnsClient ==
    /\ op.pc \in {"idle", "start"} => op.client = NoClient
    /\ op.pc \in {"send", "request"} => client = NoClient /\ op.client \in connected
    /\ op.pc \in {"code", "password", "complete"} => op.client = client /\ client # NoClient

Owned == NoClientLeak /\ PendingHasClient /\ OpOwnsClient

LoginInv == TypeOK /\ Owned

LEMMA InitLogin == Init => LoginInv
<1> SUFFICES ASSUME Init PROVE LoginInv
    OBVIOUS
<1>1. TypeOK
  BY DEF Init, TypeOK, OpPcs, Outcomes
<1>2. NoClientLeak /\ PendingHasClient
  BY DEF Init, NoClientLeak, PendingHasClient
<1>3. OpOwnsClient
  BY DEF Init, OpOwnsClient
<1> QED BY <1>1, <1>2, <1>3 DEF LoginInv, Owned

LEMMA StatusKeeps ==
    ASSUME LoginInv, Status \/ StatusDone
    PROVE  LoginInv'
<1> USE LoginAssumption DEF LoginInv, Answer, NoOp, Begin, KeepPending, ClearPending, ClearAndOpen, Release
<1>1. CASE Status
  <2>1. (op \in [pc : OpPcs, client : Clients \cup {NoClient}])'
    BY <1>1 DEF Status, ExpirePending, Borrowed, TypeOK, OpPcs
  <2>2. (outcome \in Outcomes)'
    BY <1>1 DEF Status, ExpirePending, Borrowed, TypeOK, Outcomes
  <2>3. TypeOK'
    BY <1>1, <2>1, <2>2 DEF Status, ExpirePending, Borrowed, TypeOK
  <2>4. Owned'
    BY <1>1 DEF Status, ExpirePending, Borrowed, TypeOK, Owned, NoClientLeak, PendingHasClient, OpOwnsClient
  <2> QED BY <2>3, <2>4
<1>2. CASE StatusDone
  <2>1. TypeOK'
    BY <1>2 DEF StatusDone, TypeOK, OpPcs, Outcomes
  <2>2. Owned'
    BY <1>2 DEF StatusDone, TypeOK, Owned, NoClientLeak, PendingHasClient, OpOwnsClient
  <2> QED BY <2>1, <2>2
<1> QED BY <1>1, <1>2

LEMMA SendingKeeps ==
    ASSUME LoginInv, SendingCode
    PROVE  LoginInv'
<1> USE LoginAssumption DEF LoginInv, Answer, NoOp, Begin, KeepPending, ClearPending, ClearAndOpen, Release
<1>1. CASE SendCode
  <2>1. (op \in [pc : OpPcs, client : Clients \cup {NoClient}])'
    BY <1>1 DEF SendCode, TypeOK, OpPcs
  <2>2. (outcome \in Outcomes)'
    BY <1>1 DEF SendCode, TypeOK, Outcomes
  <2>3. TypeOK'
    BY <1>1, <2>1, <2>2 DEF SendCode, TypeOK
  <2>4. Owned'
    BY <1>1 DEF SendCode, TypeOK, Owned, NoClientLeak, PendingHasClient, OpOwnsClient
  <2> QED BY <2>3, <2>4
<1>2. CASE CheckSession
  <2>1. TypeOK'
    BY <1>2 DEF CheckSession, TypeOK, OpPcs, Outcomes
  <2>2. Owned'
    BY <1>2 DEF CheckSession, TypeOK, Owned, NoClientLeak, PendingHasClient, OpOwnsClient
  <2> QED BY <2>1, <2>2
<1>3. CASE CodeSent
  <2>1. TypeOK'
    BY <1>3 DEF CodeSent, TypeOK, OpPcs, Outcomes
  <2>2. Owned'
    BY <1>3 DEF CodeSent, TypeOK, Owned, NoClientLeak, PendingHasClient, OpOwnsClient
  <2> QED BY <2>1, <2>2
<1>4. CASE CodeNotSent
  <2>1. TypeOK'
    BY <1>4 DEF CodeNotSent, TypeOK, OpPcs, Outcomes
  <2>2. Owned'
    BY <1>4 DEF CodeNotSent, TypeOK, Owned, NoClientLeak, PendingHasClient, OpOwnsClient
  <2> QED BY <2>1, <2>2
<1> QED BY <1>1, <1>2, <1>3, <1>4 DEF SendingCode

LEMMA VerifyingKeeps ==
    ASSUME LoginInv, Verifying
    PROVE  LoginInv'
<1> USE LoginAssumption DEF LoginInv, Answer, NoOp, Begin, KeepPending, ClearPending, ClearAndOpen, Release
<1>1. CASE Verify("code")
  <2>1. (op \in [pc : OpPcs, client : Clients \cup {NoClient}])'
    BY <1>1 DEF Verify, TypeOK, OpPcs
  <2>2. (outcome \in Outcomes)'
    BY <1>1 DEF Verify, TypeOK, Outcomes
  <2>3. TypeOK'
    BY <1>1, <2>1, <2>2 DEF Verify, TypeOK
  <2>4. Owned'
    BY <1>1 DEF Verify, TypeOK, Owned, NoClientLeak, PendingHasClient, OpOwnsClient
  <2> QED BY <2>3, <2>4
<1>2. CASE Verify("password")
  <2>1. (op \in [pc : OpPcs, client : Clients \cup {NoClient}])'
    BY <1>2 DEF Verify, TypeOK, OpPcs
  <2>2. (outcome \in Outcomes)'
    BY <1>2 DEF Verify, TypeOK, Outcomes
  <2>3. TypeOK'
    BY <1>2, <2>1, <2>2 DEF Verify, TypeOK
  <2>4. Owned'
    BY <1>2 DEF Verify, TypeOK, Owned, NoClientLeak, PendingHasClient, OpOwnsClient
  <2> QED BY <2>3, <2>4
<1>3. CASE SignInRefused
  <2>1. (op \in [pc : OpPcs, client : Clients \cup {NoClient}])'
    BY <1>3 DEF SignInRefused, TypeOK, OpPcs
  <2>2. (outcome \in Outcomes)'
    BY <1>3 DEF SignInRefused, TypeOK, Outcomes
  <2>3. TypeOK'
    BY <1>3, <2>1, <2>2 DEF SignInRefused, TypeOK
  <2>4. Owned'
    BY <1>3 DEF SignInRefused, TypeOK, Owned, NoClientLeak, PendingHasClient, OpOwnsClient
  <2> QED BY <2>3, <2>4
<1>4. CASE PasswordNeeded
  <2>1. TypeOK'
    BY <1>4 DEF PasswordNeeded, TypeOK, OpPcs, Outcomes
  <2>2. Owned'
    BY <1>4 DEF PasswordNeeded, TypeOK, Owned, NoClientLeak, PendingHasClient, OpOwnsClient
  <2> QED BY <2>1, <2>2
<1>5. CASE SignedIn
  <2>1. TypeOK'
    BY <1>5 DEF SignedIn, TypeOK, OpPcs, Outcomes
  <2>2. Owned'
    BY <1>5 DEF SignedIn, TypeOK, Owned, NoClientLeak, PendingHasClient, OpOwnsClient
  <2> QED BY <2>1, <2>2
<1>6. CASE Authorized
  <2>1. TypeOK'
    BY <1>6 DEF Authorized, TypeOK, OpPcs, Outcomes
  <2>2. Owned'
    BY <1>6 DEF Authorized, TypeOK, Owned, NoClientLeak, PendingHasClient, OpOwnsClient
  <2> QED BY <2>1, <2>2
<1>7. CASE NotAuthorized
  <2>1. TypeOK'
    BY <1>7 DEF NotAuthorized, TypeOK, OpPcs, Outcomes
  <2>2. Owned'
    BY <1>7 DEF NotAuthorized, TypeOK, Owned, NoClientLeak, PendingHasClient, OpOwnsClient
  <2> QED BY <2>1, <2>2
<1> QED BY <1>1, <1>2, <1>3, <1>4, <1>5, <1>6, <1>7 DEF Verifying

LEMMA OthersKeep ==
    ASSUME LoginInv, RuntimeStarts \/ RuntimeFails \/ Cancel \/ Raise \/ ClearRaises \/ Expire
             \/ Revoke \/ ListenerDrops \/ ListenerReconnects \/ Restart
    PROVE  LoginInv'
<1> USE LoginAssumption DEF LoginInv, Answer, NoOp, Begin, KeepPending, ClearPending, ClearAndOpen, Release
<1>1. CASE RuntimeStarts \/ RuntimeFails
  <2>1. TypeOK'
    BY <1>1 DEF RuntimeStarts, RuntimeFails, TypeOK, OpPcs, Outcomes
  <2>2. Owned'
    BY <1>1 DEF RuntimeStarts, RuntimeFails, TypeOK, Owned, NoClientLeak, PendingHasClient, OpOwnsClient
  <2> QED BY <2>1, <2>2
<1>2. CASE Cancel
  <2>1. TypeOK'
    BY <1>2 DEF Cancel, TypeOK, OpPcs, Outcomes
  <2>2. Owned'
    BY <1>2 DEF Cancel, TypeOK, Owned, NoClientLeak, PendingHasClient, OpOwnsClient
  <2> QED BY <2>1, <2>2
<1>3. CASE Raise
  <2>1. (op \in [pc : OpPcs, client : Clients \cup {NoClient}])'
    BY <1>3 DEF Raise, TypeOK, OpPcs
  <2>2. (outcome \in Outcomes)'
    BY <1>3 DEF Raise, TypeOK, Outcomes
  <2>3. lost' \in SUBSET Clients
    <3>1. op.client # client => op.client \in Clients
      BY <1>3 DEF Raise, TypeOK, Owned, OpOwnsClient
    <3> QED BY <1>3, <3>1 DEF Raise, TypeOK
  <2>4. TypeOK'
    BY <1>3, <2>1, <2>2, <2>3 DEF Raise, TypeOK
  <2>5. Owned'
    BY <1>3 DEF Raise, TypeOK, Owned, NoClientLeak, PendingHasClient, OpOwnsClient
  <2> QED BY <2>4, <2>5
<1>4. CASE Expire \/ Revoke
  <2>1. TypeOK'
    BY <1>4 DEF Expire, Revoke, TypeOK, OpPcs, Outcomes
  <2>2. Owned'
    BY <1>4 DEF Expire, Revoke, TypeOK, Owned, NoClientLeak, PendingHasClient, OpOwnsClient
  <2> QED BY <2>1, <2>2
<1>5. CASE ListenerDrops \/ ListenerReconnects
  <2>1. TypeOK'
    BY <1>5 DEF ListenerDrops, ListenerReconnects, TypeOK, OpPcs, Outcomes
  <2>2. Owned'
    BY <1>5 DEF ListenerDrops, ListenerReconnects, TypeOK, Owned, NoClientLeak, PendingHasClient, OpOwnsClient
  <2> QED BY <2>1, <2>2
<1>6. CASE Restart
  <2>1. TypeOK'
    BY <1>6 DEF Restart, TypeOK, OpPcs, Outcomes
  <2>2. Owned'
    BY <1>6 DEF Restart, TypeOK, Owned, NoClientLeak, PendingHasClient, OpOwnsClient
  <2> QED BY <2>1, <2>2
<1>7. CASE ClearRaises
  <2>1. TypeOK'
    BY <1>7 DEF ClearRaises, TypeOK, OpPcs, Outcomes
  <2>2. Owned'
    BY <1>7 DEF ClearRaises, TypeOK, Owned, NoClientLeak, PendingHasClient, OpOwnsClient
  <2> QED BY <2>1, <2>2
<1> QED BY <1>1, <1>2, <1>3, <1>4, <1>5, <1>6, <1>7

LEMMA NextLogin == LoginInv /\ [Next]_vars => LoginInv'
<1> SUFFICES ASSUME LoginInv, [Next]_vars
             PROVE  LoginInv'
    OBVIOUS
<1>1. CASE Next
  BY <1>1, StatusKeeps, SendingKeeps, VerifyingKeeps, OthersKeep DEF Next
<1>2. CASE UNCHANGED vars
  BY <1>2 DEF vars, LoginInv, TypeOK, Owned, NoClientLeak, PendingHasClient, OpOwnsClient
<1> QED BY <1>1, <1>2

(* The login's invariant: whatever operations, refusals, expiries,         *)
(* exceptions, revoked sessions and restarts there are (telegram_auth.py). *)
THEOREM LoginInvariant == Spec => []LoginInv
BY InitLogin, NextLogin, PTL DEF Spec

(* The parts of the state keep their types through every login operation.  *)
THEOREM LoginTypeCorrect == Spec => []TypeOK
BY LoginInvariant, PTL DEF LoginInv

(* No way out of a login operation (telegram_auth.py) leaves a connected   *)
(* client that neither the pending login nor the operation owns, but an    *)
(* exception no handler names and a disconnection that fails.              *)
THEOREM NoLeak == Spec => []NoClientLeak
BY LoginInvariant, PTL DEF LoginInv, Owned

(* A pending login has a connected client, and a client a pending login.   *)
THEOREM PendingIsWhole == Spec => []PendingHasClient
BY LoginInvariant, PTL DEF LoginInv, Owned
=============================================================================
