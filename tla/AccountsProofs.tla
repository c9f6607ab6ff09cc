--------------------------- MODULE AccountsProofs ---------------------------
(***************************************************************************)
(* Proofs about module Accounts, for every number of concurrent requests,  *)
(* every lockout threshold and every lockout duration.                     *)
(*                                                                         *)
(* The lockout property needs one fact about requests in flight: the lock  *)
(* a request is about to set lies in the future of time zero (LocksSet);   *)
(* that only older requests lift a lock needs that what a request saw of   *)
(* the lock had run out when it saw it (SeenExpired).  An old password     *)
(* comes back only through the upgrade of a hash that the account started  *)
(* with (StaleIsOriginal).  The size of a burst is found by counting the   *)
(* requests that are about to lock, and those that were let in before the  *)
(* lock, together with the counter (BurstInv).                             *)
(***************************************************************************)
EXTENDS Accounts, FiniteSetTheorems, TLAPS

\* A request about to call LockAccount holds a time the lock lasts to, and one
\* about to store a password holds the password.
LocksSet ==
  \A r \in Requests :
    /\ At(r, "lock") => req[r].until > 0
    /\ req[r].pc \in {"reset", "rehash", "update"} => req[r].pw \in Passwords

\* The lock a request read had already run out.
SeenExpired == \A r \in Requests : req[r].seen <= now

Inv == TypeOK /\ LocksSet /\ SeenExpired

-----------------------------------------------------------------------------
(* Steps of one request *)

\* A finished request is a well-formed one.
LEMMA IdleRequest ==
  Idle \in Request /\ Idle.pc = "idle" /\ Idle.seen = 0
  BY DEF Idle, Request, PCs, Calls

\* A request that moves to q keeps what holds of requests, if q has it.
LEMMA MoveRequest ==
  ASSUME Inv, NEW r \in Requests, NEW q \in Request,
         req' = [req EXCEPT ![r] = q], now' = now,
         q.pc = "lock" => q.until > 0,
         q.pc \in {"reset", "rehash", "update"} => q.pw \in Passwords,
         q.seen <= now
  PROVE  req' \in [Requests -> Request] /\ LocksSet' /\ SeenExpired'
<1>1. req'[r] = q /\ \A x \in Requests \ {r} : req'[x] = req[x]
  BY DEF Inv, TypeOK
<1>2. QED
  BY <1>1 DEF Inv, TypeOK, LocksSet, SeenExpired, At

\* Returning keeps what holds of requests.
LEMMA ReturnRequest ==
  ASSUME Inv, NEW r \in Requests, Return(r), now' = now
  PROVE  req' \in [Requests -> Request] /\ LocksSet' /\ SeenExpired'
<1>1. 0 <= now
  BY DEF Inv, TypeOK
<1>2. QED
  BY <1>1, IdleRequest, MoveRequest DEF Return

\* So does going on to the next call.
LEMMA GotoRequest ==
  ASSUME Inv, NEW r \in Requests, NEW pc \in PCs \ {"lock"}, Goto(r, pc), now' = now,
         pc \in {"reset", "rehash", "update"} => req[r].pw \in Passwords
  PROVE  req' \in [Requests -> Request] /\ LocksSet' /\ SeenExpired'
<1> DEFINE q == [req[r] EXCEPT !.pc = pc]
<1>1. req[r] \in Request /\ req[r].seen <= now
  BY DEF Inv, TypeOK, SeenExpired
<1>2. /\ q \in Request /\ q.pc = pc /\ q.pw = req[r].pw
      /\ q.seen = req[r].seen /\ q.until = req[r].until
  BY <1>1 DEF Request
<1>3. req' = [req EXCEPT ![r] = q]
  BY DEF Goto
<1> HIDE DEF q
<1>4. QED
  BY <1>1, <1>2, <1>3, MoveRequest

-----------------------------------------------------------------------------
(* Inv is inductive *)

\* The arrival of a request keeps Inv and leaves the row alone.
LEMMA ArriveStep ==
  ASSUME Inv, NEW r \in Requests, Arrive(r)
  PROVE  Inv' /\ UNCHANGED <<account, now, changes, sessions, created>>
<1>0. TypeOK /\ account \in Account /\ now \in Nat /\ changes \in Nat
  BY DEF Inv, TypeOK
<1>1. ASSUME NEW p \in Passwords, LoginLookup(r, p)
      PROVE  Inv' /\ UNCHANGED <<account, now, changes, sessions, created>>
  <2> DEFINE q == [Idle EXCEPT !.pc = IF p = account.pw THEN "reset" ELSE "failed",
                               !.pw = p, !.stale = account.stale,
                               !.seen = account.lockedUntil, !.since = changes]
  <2>1. q \in Request /\ q.pc \in {"reset", "failed"} /\ q.pw = p
        /\ q.seen = account.lockedUntil
    BY <1>0 DEF Idle, Request, PCs, Calls, Account
  <2>2. account.lockedUntil <= now
    BY <1>0, <1>1 DEF LoginLookup, Locked, Account
  <2>3. req' = [req EXCEPT ![r] = q] /\ UNCHANGED <<account, now, changes, sessions, created>>
    BY <1>1 DEF LoginLookup
  <2> HIDE DEF q
  <2>4. QED
    BY <1>0, <2>1, <2>2, <2>3, MoveRequest DEF Inv, TypeOK
<1>2. ASSUME NEW p \in Passwords, NEW new \in Passwords, ChangeLookup(r, p, new)
      PROVE  Inv' /\ UNCHANGED <<account, now, changes, sessions, created>>
  <2> DEFINE q == [Idle EXCEPT !.pc = "update", !.pw = new]
  <2>1. q \in Request /\ q.pc = "update" /\ q.pw = new /\ q.seen = 0
    BY DEF Idle, Request, PCs, Calls
  <2>2. req' = [req EXCEPT ![r] = q] /\ UNCHANGED <<account, now, changes, sessions, created>>
    BY <1>2 DEF ChangeLookup
  <2> HIDE DEF q
  <2>3. q.seen <= now
    BY <1>0, <2>1
  <2>4. QED
    BY <1>0, <2>1, <2>2, <2>3, MoveRequest DEF Inv, TypeOK
<1>3. ASSUME NEW p \in Passwords, DeleteLookup(r, p)
      PROVE  Inv' /\ UNCHANGED <<account, now, changes, sessions, created>>
  <2> DEFINE q == [Idle EXCEPT !.pc = "delete_revoke"]
  <2>1. q \in Request /\ q.pc = "delete_revoke" /\ q.seen = 0
    BY DEF Idle, Request, PCs, Calls
  <2>2. req' = [req EXCEPT ![r] = q] /\ UNCHANGED <<account, now, changes, sessions, created>>
    BY <1>3 DEF DeleteLookup
  <2> HIDE DEF q
  <2>3. q.seen <= now
    BY <1>0, <2>1
  <2>4. QED
    BY <1>0, <2>1, <2>2, <2>3, MoveRequest DEF Inv, TypeOK
<1>4. ASSUME NEW s \in sessions, RotateLookup(r, s)
      PROVE  Inv' /\ UNCHANGED <<account, now, changes, sessions, created>>
  <2> DEFINE q == [Idle EXCEPT !.pc = "rotate", !.read = {s}]
  <2>1. q \in Request /\ q.pc = "rotate" /\ q.seen = 0
    BY <1>0 DEF Idle, Request, PCs, Calls, TypeOK
  <2>2. req' = [req EXCEPT ![r] = q] /\ UNCHANGED <<account, now, changes, sessions, created>>
    BY <1>4 DEF RotateLookup
  <2> HIDE DEF q
  <2>3. q.seen <= now
    BY <1>0, <2>1
  <2>4. QED
    BY <1>0, <2>1, <2>2, <2>3, MoveRequest DEF Inv, TypeOK
<1>5. QED
  BY <1>1, <1>2, <1>3, <1>4 DEF Arrive

\* Revoking all of a user's sessions leaves a well-formed state.
LEMMA RevokeKeepsInv ==
  ASSUME Inv, NEW r \in Requests, ChangeRevoke(r) \/ DeleteRevoke(r)
  PROVE  Inv'
<1>0. /\ account \in Account /\ now \in Nat /\ changes \in Nat /\ created \in Nat
      /\ sessions \subseteq Row
      /\ UNCHANGED <<account, now, changes, created>>
  BY DEF Inv, TypeOK, ChangeRevoke, DeleteRevoke
<1>1. ASSUME NEW next \in {"revoke_commit", "delete_commit"}, PgRevokeAllScan(r, next)
      PROVE  Inv'
  <2> DEFINE q == [req[r] EXCEPT !.pc = next, !.read = sessions]
  <2>1. req[r] \in Request /\ req[r].seen <= now
    BY DEF Inv, TypeOK, SeenExpired
  <2>2. q \in Request /\ q.pc = next /\ q.seen = req[r].seen
    BY <1>0, <2>1 DEF Request, PCs, Calls
  <2>3. req' = [req EXCEPT ![r] = q] /\ sessions' = sessions
    BY <1>1 DEF PgRevokeAllScan
  <2> HIDE DEF q
  <2>4. req' \in [Requests -> Request] /\ LocksSet' /\ SeenExpired'
    BY <1>0, <2>1, <2>2, <2>3, MoveRequest
  <2>5. QED
    BY <1>0, <2>3, <2>4 DEF Inv, TypeOK
<1>2. ASSUME sessions' \subseteq sessions, Return(r) \/ Goto(r, "delete")
      PROVE  Inv'
  <2>1. req' \in [Requests -> Request] /\ LocksSet' /\ SeenExpired'
    BY <1>0, <1>2, ReturnRequest, GotoRequest DEF PCs, Calls
  <2>2. QED
    BY <1>0, <1>2, <2>1 DEF Inv, TypeOK
<1>3. QED
  BY <1>1, <1>2 DEF ChangeRevoke, DeleteRevoke, RevokeAllForUser, PgRevokeAllCommit

\* Each store call of a handler keeps Inv.
LEMMA ContinueStep ==
  ASSUME Inv, NEW r \in Requests, Continue(r)
  PROVE  Inv'
<1>0. /\ account \in Account /\ now \in Nat /\ changes \in Nat
      /\ sessions \subseteq Row /\ created \in Nat
      /\ req \in [Requests -> Request]
  BY DEF Inv, TypeOK
<1>1. CASE LoginFailed(r)
  <2>1. account' \in Account /\ UNCHANGED <<now, changes, sessions, created>>
    BY <1>0, <1>1 DEF LoginFailed, IncrementFailedAttempts, Account
  <2>2. CASE Return(r)
    BY <1>0, <2>1, <2>2, ReturnRequest DEF Inv, TypeOK
  <2>3. CASE req' = [req EXCEPT ![r].pc = "lock", ![r].until = now + LockoutDuration]
    <3> DEFINE q == [req[r] EXCEPT !.pc = "lock", !.until = now + LockoutDuration]
    <3>1. req[r] \in Request /\ req[r].seen <= now
      BY <1>0 DEF Inv, SeenExpired
    <3>2. now + LockoutDuration \in Nat /\ now + LockoutDuration > 0
      BY <1>0, DurationAssumption
    <3>3. q \in Request /\ q.pc = "lock" /\ q.until > 0 /\ q.seen = req[r].seen
      BY <3>1, <3>2 DEF Request, PCs, Calls
    <3>4. req' = [req EXCEPT ![r] = q]
      BY <2>3
    <3> HIDE DEF q
    <3>5. QED
      BY <1>0, <2>1, <3>1, <3>3, <3>4, MoveRequest DEF Inv, TypeOK
  <2>4. QED
    BY <1>1, <2>2, <2>3 DEF LoginFailed, IncrementFailedAttempts
<1>2. CASE LockAccount(r)
  <2>1. req[r].until \in Nat
    BY <1>0 DEF Request
  <2>2. account' \in Account
    BY <1>0, <1>2, <2>1 DEF LockAccount, Account
  <2>3. QED
    BY <1>0, <1>2, <2>2, ReturnRequest DEF LockAccount, Inv, TypeOK
<1>3. CASE LoginReset(r)
  <2>1. account' \in Account
    BY <1>0, <1>3 DEF LoginReset, ResetFailedAttempts, Account
  <2>2. AfterReset(r) \in PCs \ {"lock"} /\ req[r].pw \in Passwords
    BY <1>3 DEF LoginReset, AfterReset, PCs, Calls, Inv, LocksSet, At
  <2>3. QED
    BY <1>0, <1>3, <2>1, <2>2, GotoRequest DEF LoginReset, Inv, TypeOK
<1>4. CASE LoginRehash(r)
  <2>1. req[r].pw \in Passwords
    BY <1>4 DEF LoginRehash, Inv, LocksSet, At
  <2>2. account' \in Account
    BY <1>0, <1>4, <2>1 DEF LoginRehash, UpdatePasswordHash, Account
  <2>3. QED
    BY <1>0, <1>4, <2>2, GotoRequest DEF LoginRehash, Inv, TypeOK, PCs, Calls
<1>5. CASE LoginCreate(r)
  <2>1. [id |-> created + 1, opened |-> changes, missed |-> 0] \in Row
    BY <1>0 DEF Row
  <2>2. sessions' \subseteq Row /\ created' \in Nat
    BY <1>0, <1>5, <2>1 DEF LoginCreate
  <2>3. QED
    BY <1>0, <1>5, <2>2, ReturnRequest DEF LoginCreate, Inv, TypeOK
<1>6. CASE ChangeUpdate(r)
  <2>1. req[r].pw \in Passwords
    BY <1>6 DEF ChangeUpdate, Inv, LocksSet, At
  <2>2. account' \in Account
    BY <1>0, <1>6, <2>1 DEF ChangeUpdate, UpdatePasswordHash, Account
  <2>3. /\ changes' \in Nat
        /\ UNCHANGED <<sessions, created>>
    BY <1>0, <1>6, <2>1 DEF ChangeUpdate
  <2>4. req' \in [Requests -> Request] /\ LocksSet' /\ SeenExpired'
    BY <1>6, ReturnRequest, GotoRequest DEF ChangeUpdate, PCs, Calls
  <2>5. QED
    BY <1>0, <1>6, <2>2, <2>3, <2>4 DEF ChangeUpdate, Inv, TypeOK
<1>7. CASE ChangeRevoke(r) \/ DeleteRevoke(r)
  BY <1>7, RevokeKeepsInv
<1>8. CASE RotateToken(r)
  <2>1. PICK s \in req[r].read :
          \/ /\ created' = created + 1
             /\ sessions' = (sessions \ {s}) \cup
                  {[s EXCEPT !.id = created + 1,
                             !.missed = IF ChangeScanned THEN changes ELSE @]}
          \/ UNCHANGED <<sessions, created>>
    BY <1>8 DEF RotateToken
  <2>2. s \in Row
    BY <1>0, <2>1 DEF Request
  <2>3. [s EXCEPT !.id = created + 1,
                  !.missed = IF ChangeScanned THEN changes ELSE @] \in Row
    <3>1. ASSUME NEW n \in Nat, NEW m \in Nat
          PROVE  [s EXCEPT !.id = n, !.missed = m] \in Row
      BY <2>2 DEF Row
    <3>2. created + 1 \in Nat /\ (IF ChangeScanned THEN changes ELSE s.missed) \in Nat
      BY <1>0, <2>2 DEF Row
    <3>3. QED
      BY <3>1, <3>2
  <2>4. sessions' \subseteq Row /\ created' \in Nat
    BY <1>0, <2>1, <2>3
  <2>5. QED
    BY <1>0, <1>8, <2>4, ReturnRequest DEF RotateToken, Inv, TypeOK
<1>9. CASE DeleteUser(r)
  <2>1. account' \in Account
    BY <1>0, <1>9 DEF DeleteUser, Account
  <2>2. QED
    BY <1>0, <1>9, <2>1, ReturnRequest DEF DeleteUser, Inv, TypeOK
<1>10. QED
  BY <1>1, <1>2, <1>3, <1>4, <1>5, <1>6, <1>7, <1>8, <1>9 DEF Continue

\* A store call that fails keeps Inv.
LEMMA StoreErrorStep ==
  ASSUME Inv, NEW r \in Requests, StoreError(r)
  PROVE  Inv'
<1>0. TypeOK /\ UNCHANGED <<account, now, changes, sessions, created>>
  BY DEF Inv, StoreError
<1>1. CASE Return(r)
  BY <1>0, <1>1, ReturnRequest DEF Inv, TypeOK
<1>2. CASE At(r, "reset") /\ Goto(r, AfterReset(r))
  <2>1. AfterReset(r) \in PCs \ {"lock"} /\ req[r].pw \in Passwords
    BY <1>2 DEF AfterReset, PCs, Calls, Inv, LocksSet, At
  <2>2. QED
    BY <1>0, <1>2, <2>1, GotoRequest DEF Inv, TypeOK
<1>3. CASE Goto(r, "create") \/ Goto(r, "delete")
  BY <1>0, <1>3, GotoRequest DEF Inv, TypeOK, PCs, Calls
<1>4. QED
  BY <1>1, <1>2, <1>3 DEF StoreError

\* The passing of time keeps Inv.
LEMMA TickStep == ASSUME Inv, Tick PROVE Inv'
<1>1. now' = now + 1 /\ now' \in Nat /\ now \in Nat
  BY DEF Inv, TypeOK, Tick
<1>2. TypeOK'
  BY <1>1 DEF Inv, TypeOK, Tick
<1>3. \A r \in Requests : req[r].seen \in Nat
  BY DEF Inv, TypeOK, Request
<1>4. SeenExpired'
  BY <1>1, <1>3 DEF Inv, SeenExpired, Tick
<1>5. LocksSet'
  BY DEF Inv, LocksSet, Tick, At
<1>6. QED
  BY <1>2, <1>4, <1>5 DEF Inv

\* Inv holds at the start.
LEMMA InitInv == Init => Inv
  BY IdleRequest DEF Init, Inv, TypeOK, LocksSet, SeenExpired, Account, At

\* Inv depends on the variables only.
LEMMA InvStutter == Inv /\ UNCHANGED vars => Inv'
  BY DEF Inv, TypeOK, LocksSet, SeenExpired, At, vars

\* Inv holds of every state the handlers can reach.
THEOREM AlwaysInv == Spec => []Inv
<1>1. Inv /\ [Next]_vars => Inv'
  BY ArriveStep, ContinueStep, StoreErrorStep, TickStep, InvStutter DEF Next
<1>2. QED
  BY <1>1, InitInv, PTL DEF Spec

\* The account row, the clock and every request in flight keep their types.
THEOREM TypeCorrect == Spec => []TypeOK
  BY AlwaysInv, PTL DEF Inv

-----------------------------------------------------------------------------
(* Lockout *)

\* The pc of the request that steps, and of the others.
LEMMA PcAfter ==
  ASSUME TypeOK, NEW r \in Requests
  PROVE  /\ Return(r) => /\ req'[r].pc = "idle"
                         /\ \A x \in Requests \ {r} : req'[x] = req[x]
         /\ \A pc : Goto(r, pc) => /\ req'[r].pc = pc
                                   /\ \A x \in Requests \ {r} : req'[x] = req[x]
<1>1. Return(r) => /\ req'[r].pc = "idle"
                   /\ \A x \in Requests \ {r} : req'[x] = req[x]
  BY IdleRequest DEF TypeOK, Return
<1>2. ASSUME NEW pc, Goto(r, pc)
      PROVE  req'[r].pc = pc /\ \A x \in Requests \ {r} : req'[x] = req[x]
  <2>1. req[r] \in Request /\ req'[r] = [req[r] EXCEPT !.pc = pc]
    BY <1>2 DEF TypeOK, Goto
  <2>2. req'[r].pc = pc
    BY <2>1 DEF Request
  <2>3. QED
    BY <1>2, <2>2 DEF TypeOK, Goto
<1>3. QED
  BY <1>1, <1>2

\* A request that arrives leaves the others where they are, and was idle.
LEMMA ArriveOthers ==
  ASSUME TypeOK, NEW r \in Requests, Arrive(r)
  PROVE  At(r, "idle") /\ \A x \in Requests \ {r} : req'[x] = req[x]
  BY DEF Arrive, LoginLookup, RotateLookup, ChangeLookup, DeleteLookup, TypeOK

\* A revocation of all sessions only takes rows away, and goes on to its second
\* half, back to the caller or to the deletion of the user.
LEMMA RevokeOthers ==
  ASSUME TypeOK, NEW r \in Requests, ChangeRevoke(r) \/ DeleteRevoke(r)
  PROVE  /\ UNCHANGED <<account, now, changes, created>> /\ sessions' \subseteq sessions
         /\ req[r].pc \in {"revoke_all", "revoke_commit", "delete_revoke", "delete_commit"}
         /\ req'[r].pc \in {"idle", "revoke_commit", "delete_commit", "delete"}
         /\ \A x \in Requests \ {r} : req'[x] = req[x]
<1>1. ASSUME NEW next, PgRevokeAllScan(r, next)
      PROVE  /\ req'[r].pc = next /\ req'[r].read = sessions
             /\ \A x \in Requests \ {r} : req'[x] = req[x]
  <2>1. req[r] \in Request /\ req'[r] = [req[r] EXCEPT !.pc = next, !.read = sessions]
    BY <1>1 DEF TypeOK, PgRevokeAllScan
  <2>2. req'[r].pc = next /\ req'[r].read = sessions
    BY <2>1 DEF Request
  <2>3. QED
    BY <1>1, <2>2 DEF TypeOK, PgRevokeAllScan
<1>2. QED
  BY <1>1, PcAfter
  DEF ChangeRevoke, DeleteRevoke, RevokeAllForUser, PgRevokeAllScan, PgRevokeAllCommit, At

\* A step of one request leaves the others where they are.
LEMMA OthersStay ==
  ASSUME TypeOK, NEW r \in Requests, Arrive(r) \/ Continue(r) \/ StoreError(r)
  PROVE  \A x \in Requests \ {r} : req'[x] = req[x]
<1>1. CASE Arrive(r)
  BY <1>1, ArriveOthers
<1>2. CASE LoginFailed(r)
  BY <1>2, PcAfter DEF LoginFailed, IncrementFailedAttempts, TypeOK
<1>3. CASE Continue(r) /\ ~LoginFailed(r)
  BY <1>3, PcAfter, RevokeOthers
  DEF Continue, LockAccount, LoginReset, LoginRehash, LoginCreate, RotateToken,
      ChangeUpdate, DeleteUser
<1>4. CASE StoreError(r)
  BY <1>4, PcAfter DEF StoreError
<1>5. QED
  BY <1>1, <1>2, <1>3, <1>4

\* If LockAccount does not fail, no step undoes the lockout.
LEMMA ThresholdStep ==
  ASSUME "lock" \notin FailingCalls, Inv, ThresholdLocks, Next
  PROVE  ThresholdLocks'
<1>0. TypeOK /\ account \in Account /\ Threshold \in Nat \ {0}
  BY ThresholdAssumption DEF Inv, TypeOK
<1>1. CASE Tick
  BY <1>1 DEF Tick, ThresholdLocks, At
<1>2. ASSUME NEW r \in Requests, Arrive(r)
      PROVE  ThresholdLocks'
  <2>1. UNCHANGED account /\ At(r, "idle") /\ \A x \in Requests \ {r} : req'[x] = req[x]
    BY <1>0, <1>2, ArriveStep, ArriveOthers
  <2>2. QED
    BY <2>1 DEF ThresholdLocks, At
<1>3. ASSUME NEW r \in Requests, Continue(r)
      PROVE  ThresholdLocks'
  <2>1. CASE LoginFailed(r)
    <3>1. CASE ~account.exists
      <4>1. UNCHANGED account
        BY <2>1, <3>1 DEF LoginFailed, IncrementFailedAttempts
      <4>2. QED
        BY <3>1, <4>1 DEF ThresholdLocks
    <3>2. CASE account.exists /\ ReachesThreshold(account.failed + 1)
      <4>1. req' = [req EXCEPT ![r].pc = "lock", ![r].until = now + LockoutDuration]
        BY <2>1, <3>2 DEF LoginFailed, IncrementFailedAttempts
      <4>2. req[r] \in Request
            /\ req'[r] = [req[r] EXCEPT !.pc = "lock", !.until = now + LockoutDuration]
        BY <1>0, <4>1 DEF TypeOK
      <4>3. req'[r].pc = "lock"
        BY <4>2 DEF Request
      <4>4. QED
        BY <4>3 DEF ThresholdLocks, At
    <3>3. CASE account.exists /\ ~ReachesThreshold(account.failed + 1)
      <4>1. account'.failed = account.failed + 1 /\ account.failed \in Nat
        BY <1>0, <2>1, <3>3 DEF LoginFailed, IncrementFailedAttempts, Account
      <4>2. ~(account'.failed >= Threshold)
        BY <1>0, <3>3, <4>1 DEF ReachesThreshold
      <4>3. QED
        BY <4>2 DEF ThresholdLocks
    <3>4. QED
      BY <3>1, <3>2, <3>3
  <2>2. CASE LockAccount(r)
    <3>1. CASE account.exists
      <4>1. req[r].until > 0
        BY <2>2 DEF Inv, LocksSet, LockAccount
      <4>2. account'.lockedUntil > 0
        BY <1>0, <2>2, <3>1, <4>1 DEF LockAccount, Account
      <4>3. QED
        BY <4>2 DEF ThresholdLocks
    <3>2. CASE ~account.exists
      BY <2>2, <3>2 DEF LockAccount, ThresholdLocks
    <3>3. QED
      BY <3>1, <3>2
  <2>3. CASE LoginReset(r)
    <3>1. account'.exists => account'.failed = 0
      BY <1>0, <2>3 DEF LoginReset, ResetFailedAttempts, Account
    <3>2. QED
      BY <1>0, <3>1 DEF ThresholdLocks
  <2>4. CASE ~LoginFailed(r) /\ ~LockAccount(r) /\ ~LoginReset(r)
    <3>1. /\ account'.failed = account.failed
          /\ account'.lockedUntil = account.lockedUntil
          /\ account'.exists => account.exists
      BY <1>0, <1>3, <2>4
      DEF Continue, LoginRehash, LoginCreate, RotateToken, ChangeUpdate, ChangeRevoke,
          DeleteRevoke, DeleteUser, UpdatePasswordHash, Account
    <3>2. ~At(r, "lock") /\ \A x \in Requests \ {r} : req'[x] = req[x]
      BY <1>0, <1>3, <2>4, PcAfter, RevokeOthers
      DEF Continue, LoginRehash, LoginCreate, RotateToken, ChangeUpdate, DeleteUser, At
    <3>3. QED
      BY <3>1, <3>2 DEF ThresholdLocks, At
  <2>5. QED
    BY <2>1, <2>2, <2>3, <2>4
<1>4. ASSUME NEW r \in Requests, StoreError(r)
      PROVE  ThresholdLocks'
  <2>1. UNCHANGED account /\ ~At(r, "lock")
    BY <1>4 DEF StoreError, At
  <2>2. \A x \in Requests \ {r} : req'[x] = req[x]
    BY <1>0, <1>4, PcAfter DEF StoreError
  <2>3. QED
    BY <2>1, <2>2 DEF ThresholdLocks, At
<1>5. QED
  BY <1>1, <1>2, <1>3, <1>4 DEF Next

\* Whatever logins fail and succeed at the same time, an account whose counter
\* reached the threshold was locked or is about to be, if LockAccount does not
\* fail.
THEOREM AlwaysThresholdLocks ==
  ASSUME "lock" \notin FailingCalls PROVE Spec => []ThresholdLocks
<1>1. Init => ThresholdLocks
  BY ThresholdAssumption DEF Init, ThresholdLocks
<1>2. Inv /\ ThresholdLocks /\ [Next]_vars => ThresholdLocks'
  <2>1. ThresholdLocks /\ UNCHANGED vars => ThresholdLocks'
    BY DEF ThresholdLocks, At, vars
  <2>2. QED
    BY <2>1, ThresholdStep
<1>3. QED
  BY <1>1, <1>2, AlwaysInv, PTL DEF Spec

\* A running lock is lifted or shortened only by a request that read the row
\* before the lock was set: one that arrives during the lock never does it.
THEOREM AlwaysLockYieldsOnlyToOlder == Spec => LockYieldsOnlyToOlder
<1> DEFINE Older == (Locked /\ account'.lockedUntil < account.lockedUntil)
                      => \E r \in Requests : /\ req[r].pc \in {"reset", "lock"}
                                             /\ req'[r] # req[r]
                                             /\ req[r].seen # account.lockedUntil
<1>1. Inv /\ [Next]_vars => [Older]_vars
  <2> SUFFICES ASSUME Inv, Next, Locked, account'.lockedUntil < account.lockedUntil
               PROVE  \E r \in Requests : /\ req[r].pc \in {"reset", "lock"}
                                          /\ req'[r] # req[r]
                                          /\ req[r].seen # account.lockedUntil
    OBVIOUS
  <2>0. TypeOK /\ account \in Account /\ now \in Nat /\ account.lockedUntil \in Nat
    BY DEF Inv, TypeOK, Account
  <2>1. account'.lockedUntil # account.lockedUntil
    BY <2>0
  <2>2. \A r \in Requests : req[r].seen # account.lockedUntil
    <3>1. \A r \in Requests : req[r].seen \in Nat /\ req[r].seen <= now
      BY <2>0 DEF Inv, SeenExpired, TypeOK, Request
    <3>2. QED
      BY <2>0, <3>1 DEF Locked
  <2>3. PICK r \in Requests : Continue(r)
    <3>1. UNCHANGED account => FALSE
      BY <2>1
    <3>2. QED
      BY <3>1, ArriveStep DEF Next, Tick, StoreError
  <2>4. LockAccount(r) \/ LoginReset(r)
    BY <2>0, <2>1, <2>3
    DEF Continue, LoginFailed, IncrementFailedAttempts, LoginRehash, LoginCreate, RotateToken,
        ChangeUpdate, ChangeRevoke, DeleteRevoke, DeleteUser, UpdatePasswordHash, Account
  <2>5. req[r].pc \in {"reset", "lock"}
    BY <2>4 DEF LockAccount, LoginReset, At
  <2>6. req'[r].pc \in {"idle", "rehash", "create"}
    BY <2>0, <2>4, PcAfter DEF LockAccount, LoginReset, AfterReset
  <2>7. req'[r] # req[r]
    BY <2>5, <2>6
  <2>8. QED
    BY <2>2, <2>5, <2>7
<1>2. QED
  BY <1>1, AlwaysInv, PTL DEF Spec, LockYieldsOnlyToOlder

-----------------------------------------------------------------------------
(* Password change and deletion *)

\* Only Postgres comes to the second half of a change's revocation.
LEMMA BackendStep ==
  ASSUME Backend # "postgres", TypeOK, NEW r \in Requests,
         Arrive(r) \/ Continue(r) \/ StoreError(r)
  PROVE  req'[r].pc # "revoke_commit"
<1>1. CASE Arrive(r)
  <2>1. CASE \E p \in Passwords : LoginLookup(r, p)
    BY <2>1 DEF LoginLookup, Idle, TypeOK
  <2>2. CASE \E s \in sessions : RotateLookup(r, s)
    BY <2>2 DEF RotateLookup, Idle, TypeOK
  <2>3. CASE \E p, new \in Passwords : ChangeLookup(r, p, new)
    BY <2>3 DEF ChangeLookup, Idle, TypeOK
  <2>4. CASE \E p \in Passwords : DeleteLookup(r, p)
    BY <2>4 DEF DeleteLookup, Idle, TypeOK
  <2>5. QED
    BY <1>1, <2>1, <2>2, <2>3, <2>4 DEF Arrive
<1>2. CASE LoginFailed(r)
  BY <1>2, PcAfter DEF LoginFailed, IncrementFailedAttempts, TypeOK, Request
<1>3. CASE ChangeRevoke(r) \/ DeleteRevoke(r)
  BY <1>3, PcAfter DEF ChangeRevoke, DeleteRevoke, PgRevokeAllScan, At
<1>4. CASE Continue(r) /\ ~LoginFailed(r) /\ ~ChangeRevoke(r) /\ ~DeleteRevoke(r)
  <2>1. req'[r].pc \in {"idle", "rehash", "create", "revoke_all"}
    BY <1>4, PcAfter
    DEF Continue, LockAccount, LoginReset, AfterReset, LoginRehash, LoginCreate, RotateToken,
        ChangeUpdate, DeleteUser
  <2>2. QED
    BY <2>1
<1>5. CASE StoreError(r)
  BY <1>5, PcAfter DEF StoreError, AfterReset
<1>6. QED
  BY <1>1, <1>2, <1>3, <1>4, <1>5

\* Where a session that is live after a step comes from: a login that saw the
\* last change, a refresh in the middle of a change's UPDATE, or a session of
\* the same login that was live before, which every change that was to end it
\* is still to end.
LEMMA SessionAfter ==
  ASSUME Backend # "memory", {"revoke_all", "revoke_commit"} \cap FailingCalls = {},
         Inv, [Next]_vars, NEW s \in sessions'
  PROVE  \/ s.opened = changes'
         \/ \E x \in Requests : WillEnd(x, s)'
         \/ ChangeScanned /\ s.missed = changes'
         \/ \E o \in sessions :
              /\ s.opened = o.opened /\ s.missed = o.missed /\ changes' = changes
              /\ \A x \in Requests : WillEnd(x, o) => WillEnd(x, s)'
<1> DEFINE From(o) == /\ s.opened = o.opened /\ s.missed = o.missed /\ changes' = changes
                      /\ \A x \in Requests : WillEnd(x, o) => WillEnd(x, s)'
           Same == s \in sessions /\ From(s)
<1>0. TypeOK /\ changes \in Nat /\ created \in Nat /\ sessions \subseteq Row
  BY DEF Inv, TypeOK
<1>1. ASSUME UNCHANGED <<changes, sessions>>, NEW r \in Requests,
             ~At(r, "revoke_all"), ~At(r, "revoke_commit"),
             \A x \in Requests \ {r} : req'[x] = req[x]
      PROVE  Same
  BY <1>1 DEF WillEnd, At
<1>2. CASE UNCHANGED vars \/ Tick
  BY <1>2 DEF WillEnd, At, vars, Tick
<1>3. ASSUME NEW r \in Requests, Arrive(r) \/ StoreError(r)
      PROVE  Same
  <2>1. UNCHANGED <<changes, sessions>> /\ ~At(r, "revoke_all") /\ ~At(r, "revoke_commit")
    BY <1>0, <1>3, ArriveStep, ArriveOthers DEF StoreError, At
  <2>2. \A x \in Requests \ {r} : req'[x] = req[x]
    BY <1>0, <1>3, OthersStay
  <2>3. QED
    BY <1>1, <2>1, <2>2
<1>4. ASSUME NEW r \in Requests, LoginCreate(r)
      PROVE  s.opened = changes' \/ Same
  <2>1. s \in sessions \/ s.opened = changes
    BY <1>4 DEF LoginCreate
  <2>2. \A x \in Requests \ {r} : req'[x] = req[x]
    BY <1>0, <1>4, OthersStay DEF Continue
  <2>3. changes' = changes /\ ~At(r, "revoke_all") /\ ~At(r, "revoke_commit")
    BY <1>4 DEF LoginCreate, At
  <2>4. QED
    BY <2>1, <2>2, <2>3 DEF WillEnd, At
<1>5. ASSUME NEW r \in Requests, RotateToken(r)
      PROVE  (ChangeScanned /\ s.missed = changes') \/ \E o \in sessions : From(o)
  <2>1. /\ \A x \in Requests \ {r} : req'[x] = req[x]
        /\ changes' = changes /\ ~At(r, "revoke_all") /\ ~At(r, "revoke_commit")
    BY <1>0, <1>5, OthersStay DEF Continue, RotateToken, At
  <2>2. CASE s \in sessions
    BY <2>1, <2>2 DEF WillEnd, At
  <2>3. CASE s \notin sessions
    <3>1. PICK o \in req[r].read :
            /\ RotateMatches(o)
            /\ s = [o EXCEPT !.id = created + 1,
                             !.missed = IF ChangeScanned THEN changes ELSE @]
      BY <1>5, <2>3 DEF RotateToken
    <3>2. o \in sessions /\ o \in Row
      BY <1>0, <3>1 DEF RotateMatches
    <3>3. /\ s.opened = o.opened
          /\ s.missed = IF ChangeScanned THEN changes ELSE o.missed
      BY <3>1, <3>2 DEF Row
    <3>4. CASE ChangeScanned
      BY <2>1, <3>3, <3>4
    <3>5. CASE ~ChangeScanned
      <4>1. \A x \in Requests : WillEnd(x, o) => WillEnd(x, s)'
        BY <2>1, <3>5 DEF WillEnd, ChangeScanned, At
      <4>2. QED
        BY <2>1, <3>2, <3>3, <3>5, <4>1
    <3>6. QED
      BY <3>4, <3>5
  <2>4. QED
    BY <2>2, <2>3
<1>6. ASSUME NEW r \in Requests, ChangeUpdate(r)
      PROVE  Same \/ \E x \in Requests : WillEnd(x, s)'
  <2>1. CASE account.exists
    <3>1. req'[r].pc = "revoke_all"
      BY <1>0, <1>6, <2>1, PcAfter DEF ChangeUpdate
    <3>2. QED
      BY <3>1 DEF WillEnd, At
  <2>2. CASE ~account.exists
    <3>1. UNCHANGED <<changes, sessions>> /\ ~At(r, "revoke_all") /\ ~At(r, "revoke_commit")
      BY <1>6, <2>2 DEF ChangeUpdate, At
    <3>2. \A x \in Requests \ {r} : req'[x] = req[x]
      BY <1>0, <1>6, OthersStay DEF Continue
    <3>3. QED
      BY <1>1, <3>1, <3>2
  <2>3. QED
    BY <2>1, <2>2
<1>7. ASSUME NEW r \in Requests, ChangeRevoke(r) \/ DeleteRevoke(r)
      PROVE  Same
  <2>1. /\ changes' = changes /\ s \in sessions
        /\ \A x \in Requests \ {r} : req'[x] = req[x]
    BY <1>0, <1>7, RevokeOthers
  <2>2. WillEnd(r, s) => WillEnd(r, s)'
    <3>1. CASE At(r, "revoke_all")
      <4>1. PgRevokeAllScan(r, "revoke_commit")
        BY <1>7, <3>1 DEF ChangeRevoke, DeleteRevoke, RevokeAllForUser, At
      <4>2. /\ req[r] \in Request /\ sessions' = sessions
            /\ req'[r] = [req[r] EXCEPT !.pc = "revoke_commit", !.read = sessions]
        BY <1>0, <4>1 DEF PgRevokeAllScan, TypeOK
      <4>3. req'[r].pc = "revoke_commit" /\ req'[r].read = sessions
        BY <4>2 DEF Request
      <4>4. QED
        BY <2>1, <4>3 DEF WillEnd, At
    <3>2. CASE At(r, "revoke_commit")
      <4>1. s \notin req[r].read
        BY <1>7, <3>2 DEF ChangeRevoke, DeleteRevoke, PgRevokeAllCommit, At
      <4>2. QED
        BY <3>2, <4>1 DEF WillEnd, At
    <3>3. QED
      BY <3>1, <3>2 DEF WillEnd
  <2>3. QED
    BY <2>1, <2>2 DEF WillEnd, At
<1>8. ASSUME NEW r \in Requests,
             LoginFailed(r) \/ LockAccount(r) \/ LoginReset(r) \/ LoginRehash(r) \/ DeleteUser(r)
      PROVE  Same
  <2>1. /\ changes' = changes /\ s \in sessions
        /\ ~At(r, "revoke_all") /\ ~At(r, "revoke_commit")
    BY <1>8 DEF LoginFailed, LockAccount, LoginReset, LoginRehash, DeleteUser, At
  <2>2. \A x \in Requests \ {r} : req'[x] = req[x]
    BY <1>0, <1>8, OthersStay DEF Continue
  <2>3. QED
    BY <2>1, <2>2 DEF WillEnd, At
<1>9. CASE \E r \in Requests : Continue(r)
  <2>1. PICK r \in Requests : Continue(r)
    BY <1>9
  <2> HIDE DEF From
  <2>2. (ChangeScanned /\ s.missed = changes') \/ s.opened = changes'
        \/ (\E x \in Requests : WillEnd(x, s)') \/ \E o \in sessions : From(o)
    BY <2>1, <1>4, <1>5, <1>6, <1>7, <1>8 DEF Continue
  <2>3. QED
    BY <2>2 DEF From
<1>10. QED
  BY <1>2, <1>3, <1>9 DEF Next

\* If the revocation does not fail, a session opened before a password change
\* outlives it only on Postgres, where a refresh replaced its row in the middle of
\* the change's UPDATE; the memory store's RotateToken revives revoked rows.
THEOREM AlwaysNoSessionOutlivesChange ==
  ASSUME Backend # "memory", {"revoke_all", "revoke_commit"} \cap FailingCalls = {}
  PROVE  Spec => []NoSessionOutlivesChange
<1>1. Init => NoSessionOutlivesChange
  BY DEF Init, NoSessionOutlivesChange
<1>2. Inv /\ NoSessionOutlivesChange /\ [Next]_vars => NoSessionOutlivesChange'
  BY SessionAfter DEF NoSessionOutlivesChange
<1>3. QED
  BY <1>1, <1>2, AlwaysInv, PTL DEF Spec

\* On SQLite ChangePassword keeps its promise: every session opened before a
\* change is revoked by it, whatever refreshes and logins are in flight.
THEOREM AlwaysChangeEndsSessions ==
  ASSUME Backend = "sqlite", {"revoke_all", "revoke_commit"} \cap FailingCalls = {}
  PROVE  Spec => []ChangeEndsSessions
<1> DEFINE OneStep == ~ChangeScanned /\ ChangeEndsSessions
<1>1. Init => OneStep
  BY IdleRequest DEF Init, ChangeEndsSessions, ChangeScanned, At
<1>2. Inv /\ OneStep /\ [Next]_vars => OneStep'
  <2> SUFFICES ASSUME Inv, OneStep, [Next]_vars PROVE OneStep'
    OBVIOUS
  <2>1. ChangeEndsSessions'
    BY SessionAfter DEF ChangeEndsSessions
  <2>2. ~ChangeScanned'
    <3>1. CASE UNCHANGED vars \/ Tick
      BY <3>1 DEF vars, Tick, ChangeScanned, At
    <3>2. ASSUME NEW r \in Requests, Arrive(r) \/ Continue(r) \/ StoreError(r)
          PROVE  ~ChangeScanned'
      <4>1. \A x \in Requests \ {r} : req'[x] = req[x]
        BY <3>2, OthersStay DEF Inv
      <4>2. req'[r].pc # "revoke_commit"
        BY <3>2, BackendStep DEF Inv
      <4>3. QED
        BY <4>1, <4>2 DEF ChangeScanned, At
    <3>3. QED
      BY <3>1, <3>2 DEF Next
  <2>3. QED
    BY <2>1, <2>2
<1>3. QED
  BY <1>1, <1>2, AlwaysInv, PTL DEF Spec

\* Where the store checks and cascades its foreign keys, a deleted user has no
\* session, even if the store calls around the deletion fail.
THEOREM AlwaysDeletedAccountHasNoSessions ==
  ASSUME ChecksUser, Cascades PROVE Spec => []DeletedAccountHasNoSessions
<1>1. Init => DeletedAccountHasNoSessions
  BY DEF Init, DeletedAccountHasNoSessions
<1>2. Inv /\ DeletedAccountHasNoSessions /\ [Next]_vars
        => DeletedAccountHasNoSessions'
  <2> SUFFICES ASSUME Inv, DeletedAccountHasNoSessions, [Next]_vars
               PROVE  DeletedAccountHasNoSessions'
    OBVIOUS
  <2>0. account \in Account
    BY DEF Inv, TypeOK
  <2>1. CASE UNCHANGED vars \/ Tick \/ \E r \in Requests : StoreError(r)
    BY <2>1 DEF DeletedAccountHasNoSessions, vars, Tick, StoreError
  <2>2. ASSUME NEW r \in Requests, Arrive(r)
        PROVE  DeletedAccountHasNoSessions'
    BY <2>2, ArriveStep DEF DeletedAccountHasNoSessions
  <2>3. ASSUME NEW r \in Requests, Continue(r)
        PROVE  DeletedAccountHasNoSessions'
    <3>1. CASE LoginCreate(r)
      BY <3>1 DEF LoginCreate, DeletedAccountHasNoSessions
    <3>2. CASE DeleteUser(r)
      BY <3>2 DEF DeleteUser, DeletedAccountHasNoSessions
    <3>3. CASE RotateToken(r)
      BY <3>3 DEF RotateToken, RotateMatches, Cascades, DeletedAccountHasNoSessions
    <3>4. CASE ~LoginCreate(r) /\ ~DeleteUser(r) /\ ~RotateToken(r)
      <4>1. account'.exists = account.exists
        BY <2>0, <2>3, <3>4
        DEF Continue, LoginFailed, IncrementFailedAttempts, LockAccount, LoginReset, LoginRehash,
            ChangeUpdate, ChangeRevoke, DeleteRevoke, UpdatePasswordHash,
            ResetFailedAttempts, Account
      <4>2. sessions' \subseteq sessions
        BY <2>3, <3>4, RevokeOthers
        DEF Inv, Continue, LoginFailed, IncrementFailedAttempts, LockAccount, LoginReset,
            LoginRehash, ChangeUpdate
      <4>3. QED
        BY <4>1, <4>2 DEF DeletedAccountHasNoSessions
    <3>5. QED
      BY <3>1, <3>2, <3>3, <3>4
  <2>4. QED
    BY <2>1, <2>2, <2>3 DEF Next
<1>3. QED
  BY <1>1, <1>2, AlwaysInv, PTL DEF Spec

-----------------------------------------------------------------------------
(* Hash upgrades *)

\* A hash that is due for an upgrade is the one the account started with, and
\* a login that read such a hash verified the first password.
StaleIsOriginal ==
  /\ account.stale => changes = 0
  /\ \A r \in Requests :
       /\ At(r, "rehash") => req[r].stale
       /\ req[r].pc \in {"reset", "rehash"} /\ req[r].stale
            => /\ req[r].since = 0
               /\ changes = 0 => req[r].pw = account.pw

\* A login that goes on after the reset keeps what it read.
LEMMA AfterResetKeeps ==
  ASSUME TypeOK, StaleIsOriginal, NEW r \in Requests, At(r, "reset"),
         Goto(r, AfterReset(r)), UNCHANGED <<changes>>, account'.pw = account.pw
  PROVE  /\ At(r, "rehash")' => req'[r].stale
         /\ req'[r].pc \in {"reset", "rehash"} /\ req'[r].stale
              => /\ req'[r].since = 0
                 /\ changes' = 0 => req'[r].pw = account'.pw
<1>1. req[r] \in Request /\ req'[r] = [req[r] EXCEPT !.pc = AfterReset(r)]
  BY DEF TypeOK, Goto
<1>2. /\ req'[r].pc = AfterReset(r) /\ req'[r].stale = req[r].stale
      /\ req'[r].since = req[r].since /\ req'[r].pw = req[r].pw
  BY <1>1 DEF Request
<1>3. QED
  BY <1>2 DEF StaleIsOriginal, AfterReset, At

\* No step of a handler undoes StaleIsOriginal.
LEMMA StaleStep ==
  ASSUME Inv, StaleIsOriginal, Next
  PROVE  StaleIsOriginal'
<1>0. TypeOK /\ account \in Account /\ changes \in Nat
  BY DEF Inv, TypeOK
<1> DEFINE Original == /\ account'.stale => changes' = 0
                       /\ changes' = 0 => changes = 0 /\ account'.pw = account.pw
           Own(r) == /\ At(r, "rehash")' => req'[r].stale
                     /\ req'[r].pc \in {"reset", "rehash"} /\ req'[r].stale
                          => /\ req'[r].since = 0
                             /\ changes' = 0 => req'[r].pw = account'.pw
<1>1. ASSUME NEW r \in Requests, Original, Own(r),
             \A x \in Requests \ {r} : req'[x] = req[x]
      PROVE  StaleIsOriginal'
  BY <1>1 DEF StaleIsOriginal, At
<1>2. CASE Tick
  BY <1>2 DEF Tick, StaleIsOriginal, At
<1>3. ASSUME NEW r \in Requests, Arrive(r)
      PROVE  StaleIsOriginal'
  <2>1. Original /\ \A x \in Requests \ {r} : req'[x] = req[x]
    BY <1>0, <1>3, ArriveStep, OthersStay DEF StaleIsOriginal
  <2>2. Own(r)
    <3>1. ASSUME NEW p \in Passwords, LoginLookup(r, p)
          PROVE  Own(r)
      <4>1. req'[r] = [Idle EXCEPT !.pc = IF p = account.pw THEN "reset" ELSE "failed",
                                   !.pw = p, !.stale = account.stale,
                                   !.seen = account.lockedUntil, !.since = changes]
        BY <1>0, <3>1 DEF LoginLookup, TypeOK
      <4>2. /\ req'[r].pc = IF p = account.pw THEN "reset" ELSE "failed"
            /\ req'[r].pw = p /\ req'[r].stale = account.stale /\ req'[r].since = changes
        BY <4>1 DEF Idle
      <4>3. QED
        BY <3>1, <4>2 DEF LoginLookup, StaleIsOriginal, At
    <3>2. CASE \E p, new \in Passwords : ChangeLookup(r, p, new)
      <4>1. req'[r].pc = "update"
        BY <1>0, <3>2 DEF ChangeLookup, TypeOK, Idle
      <4>2. QED
        BY <4>1 DEF At
    <3>3. CASE \E p \in Passwords : DeleteLookup(r, p)
      <4>1. req'[r].pc = "delete_revoke"
        BY <1>0, <3>3 DEF DeleteLookup, TypeOK, Idle
      <4>2. QED
        BY <4>1 DEF At
    <3>4. CASE \E s \in sessions : RotateLookup(r, s)
      <4>1. req'[r].pc = "rotate"
        BY <1>0, <3>4 DEF RotateLookup, TypeOK, Idle
      <4>2. QED
        BY <4>1 DEF At
    <3>5. QED
      BY <1>3, <3>1, <3>2, <3>3, <3>4 DEF Arrive
  <2>3. QED
    BY <1>1, <2>1, <2>2
<1>4. ASSUME NEW r \in Requests, Continue(r)
      PROVE  StaleIsOriginal'
  <2>0. \A x \in Requests \ {r} : req'[x] = req[x]
    BY <1>0, <1>4, OthersStay
  <2>1. CASE LoginReset(r)
    <3>1. account'.pw = account.pw /\ account'.stale = account.stale /\ changes' = changes
      BY <1>0, <2>1 DEF LoginReset, ResetFailedAttempts, Account
    <3>2. Own(r)
      BY <1>0, <2>1, <3>1, AfterResetKeeps DEF LoginReset
    <3>3. QED
      BY <1>1, <2>0, <3>1, <3>2 DEF StaleIsOriginal
  <2>2. CASE LoginRehash(r)
    <3>1. /\ account'.pw = account.pw \/ account'.pw = req[r].pw
          /\ account'.stale => account.stale
      BY <1>0, <2>2 DEF LoginRehash, UpdatePasswordHash, Account
    <3>2. req'[r].pc = "create"
      BY <1>0, <2>2, PcAfter DEF LoginRehash
    <3>3. changes = 0 => req[r].pw = account.pw
      BY <2>2 DEF LoginRehash, StaleIsOriginal, At
    <3>4. changes' = changes
      BY <2>2 DEF LoginRehash
    <3>5. QED
      BY <1>1, <2>0, <3>1, <3>2, <3>3, <3>4 DEF StaleIsOriginal, At
  <2>3. CASE ChangeUpdate(r)
    <3>1. CASE account.exists
      <4>1. account'.stale = FALSE /\ changes' = changes + 1
        BY <1>0, <2>3, <3>1 DEF ChangeUpdate, UpdatePasswordHash, Account
      <4>2. changes' # 0
        BY <1>0, <4>1
      <4>3. req'[r].pc = "revoke_all"
        BY <1>0, <2>3, <3>1, PcAfter DEF ChangeUpdate
      <4>4. QED
        BY <1>1, <2>0, <4>1, <4>2, <4>3 DEF At
    <3>2. CASE ~account.exists
      <4>1. account' = account /\ changes' = changes
        BY <2>3, <3>2 DEF ChangeUpdate, UpdatePasswordHash
      <4>2. req'[r].pc = "idle"
        BY <1>0, <2>3, <3>2, PcAfter DEF ChangeUpdate
      <4>3. QED
        BY <1>1, <2>0, <4>1, <4>2 DEF StaleIsOriginal, At
    <3>3. QED
      BY <3>1, <3>2
  <2>4. CASE ~LoginReset(r) /\ ~LoginRehash(r) /\ ~ChangeUpdate(r)
    <3>1. account'.pw = account.pw /\ account'.stale = account.stale /\ changes' = changes
      BY <1>0, <1>4, <2>4
      DEF Continue, LoginFailed, IncrementFailedAttempts, LockAccount, LoginCreate,
          RotateToken, ChangeRevoke, DeleteRevoke, DeleteUser, Account
    <3>2. req'[r].pc \notin {"reset", "rehash"}
      <4>1. CASE LoginFailed(r)
        BY <1>0, <4>1, PcAfter DEF LoginFailed, IncrementFailedAttempts, TypeOK, Request
      <4>2. CASE ~LoginFailed(r)
        BY <1>0, <1>4, <2>4, <4>2, PcAfter, RevokeOthers
        DEF Continue, LockAccount, LoginCreate, RotateToken, DeleteUser
      <4>3. QED
        BY <4>1, <4>2
    <3>3. QED
      BY <1>1, <2>0, <3>1, <3>2 DEF StaleIsOriginal, At
  <2>5. QED
    BY <2>1, <2>2, <2>3, <2>4
<1>5. ASSUME NEW r \in Requests, StoreError(r)
      PROVE  StaleIsOriginal'
  <2>1. Original /\ changes' = changes /\ account' = account
    BY <1>5 DEF StoreError, StaleIsOriginal
  <2>2. \A x \in Requests \ {r} : req'[x] = req[x]
    BY <1>0, <1>5, OthersStay
  <2>3. CASE At(r, "reset") /\ Goto(r, AfterReset(r))
    <3>1. Own(r)
      BY <1>0, <2>1, <2>3, AfterResetKeeps
    <3>2. QED
      BY <1>1, <2>1, <2>2, <3>1
  <2>4. CASE Return(r) \/ Goto(r, "create") \/ Goto(r, "delete")
    <3>1. req'[r].pc \in {"idle", "create", "delete"}
      BY <1>0, <2>4, PcAfter
    <3>2. QED
      BY <1>1, <2>1, <2>2, <3>1 DEF At
  <2>5. QED
    BY <1>5, <2>3, <2>4 DEF StoreError
<1>6. QED
  BY <1>2, <1>3, <1>4, <1>5 DEF Next

\* Only a login that read the row before the first change verified a password
\* that the account no longer has and goes on to store it again.
THEOREM AlwaysStaleIsOriginal == Spec => []StaleIsOriginal
<1>1. Init => StaleIsOriginal
  BY IdleRequest DEF Init, StaleIsOriginal, At
<1>2. Inv /\ StaleIsOriginal /\ [Next]_vars => StaleIsOriginal'
  <2>1. StaleIsOriginal /\ UNCHANGED vars => StaleIsOriginal'
    BY DEF StaleIsOriginal, At, vars
  <2>2. QED
    BY <2>1, StaleStep
<1>3. QED
  BY <1>1, <1>2, AlwaysInv, PTL DEF Spec

\* The password is replaced by ChangePassword, or by the hash upgrade of a
\* login that read the row before the last change; a login that read it since
\* then puts no other password back.
THEOREM AlwaysPasswordYieldsOnlyToOlder == Spec => PasswordYieldsOnlyToOlder
<1> DEFINE Older == account'.pw # account.pw
                      => \/ changes' # changes
                         \/ \E r \in Requests : /\ At(r, "rehash")
                                                /\ req'[r] # req[r]
                                                /\ req[r].since < changes
<1>1. Inv /\ StaleIsOriginal /\ [Next]_vars => [Older]_vars
  <2> SUFFICES ASSUME Inv, StaleIsOriginal, Next,
                      account'.pw # account.pw, changes' = changes
               PROVE  \E r \in Requests : /\ At(r, "rehash")
                                          /\ req'[r] # req[r]
                                          /\ req[r].since < changes
    OBVIOUS
  <2>0. TypeOK /\ account \in Account /\ changes \in Nat
    BY DEF Inv, TypeOK
  <2>1. PICK r \in Requests : Continue(r)
    BY ArriveStep DEF Next, Tick, StoreError
  <2>2. LoginRehash(r)
    <3>1. ~ChangeUpdate(r)
      BY <2>0 DEF ChangeUpdate, UpdatePasswordHash
    <3>2. QED
      BY <2>0, <2>1, <3>1
      DEF Continue, LoginFailed, IncrementFailedAttempts, LockAccount, LoginReset,
          ResetFailedAttempts, LoginCreate, RotateToken, ChangeRevoke, DeleteRevoke, DeleteUser, Account
  <2>3. account'.pw = req[r].pw
    BY <2>0, <2>2 DEF LoginRehash, UpdatePasswordHash, Account
  <2>4. At(r, "rehash") /\ req[r].since = 0 /\ changes # 0
    BY <2>2, <2>3 DEF LoginRehash, StaleIsOriginal, At
  <2>5. req'[r].pc = "create"
    BY <2>0, <2>2, PcAfter DEF LoginRehash
  <2>6. req'[r] # req[r] /\ req[r].since < changes
    BY <2>0, <2>4, <2>5 DEF At
  <2>7. QED
    BY <2>4, <2>6
<1>2. QED
  BY <1>1, AlwaysInv, AlwaysStaleIsOriginal, PTL DEF Spec, PasswordYieldsOnlyToOlder

-----------------------------------------------------------------------------
(* The size of a burst *)

AtPc(pc) == {r \in Requests : At(r, pc)}

\* Before the first lock can run out, whoever took the counter past the
\* threshold is about to lock the account, or it is locked and only the wrong
\* passwords that were let in before the lock are still to be counted.
BurstInv ==
  /\ \A r \in Requests : At(r, "lock") => req[r].until >= LockoutDuration
  /\ now < LockoutDuration =>
       \/ account.failed <= Threshold - 1 + Cardinality(AtPc("lock"))
       \/ /\ ~account.exists
          /\ account.failed <= Threshold - 1 + Cardinality(Requests)
       \/ /\ account.lockedUntil >= LockoutDuration
          /\ account.failed + Cardinality(AtPc("failed"))
               <= Threshold - 1 + Cardinality(Requests)

\* The requests at one pc are finitely many, and one is at one pc only.
LEMMA CountsBounded ==
  ASSUME IsFiniteSet(Requests)
  PROVE  /\ Cardinality(Requests) \in Nat
         /\ \A pc : /\ IsFiniteSet(AtPc(pc))
                    /\ Cardinality(AtPc(pc)) \in Nat
                    /\ Cardinality(AtPc(pc)) <= Cardinality(Requests)
         /\ Cardinality(AtPc("lock")) + Cardinality(AtPc("failed"))
              <= Cardinality(Requests)
<1>1. Cardinality(Requests) \in Nat
  BY FS_CardinalityType
<1>2. ASSUME NEW pc
      PROVE  /\ IsFiniteSet(AtPc(pc))
             /\ Cardinality(AtPc(pc)) \in Nat
             /\ Cardinality(AtPc(pc)) <= Cardinality(Requests)
  <2>1. AtPc(pc) \in SUBSET Requests
    BY DEF AtPc
  <2>2. QED
    BY <2>1, FS_Subset, FS_CardinalityType
<1>3. Cardinality(AtPc("lock")) + Cardinality(AtPc("failed")) <= Cardinality(Requests)
  <2> DEFINE L == AtPc("lock")  F == AtPc("failed")
  <2>1. L \cap F = {} /\ L \cup F \in SUBSET Requests
    BY DEF AtPc, At
  <2>2. IsFiniteSet(L) /\ IsFiniteSet(F) /\ Cardinality(L) \in Nat /\ Cardinality(F) \in Nat
    BY <1>2
  <2>3. Cardinality(L \cup F) <= Cardinality(Requests)
    BY <2>1, FS_Subset
  <2> HIDE DEF L, F
  <2>4. Cardinality(L \cup F) = Cardinality(L) + Cardinality(F) - Cardinality(L \cap F)
    BY <2>2, FS_Union
  <2>5. Cardinality(L \cap F) = 0
    BY <2>1, FS_EmptySet
  <2>6. Cardinality(L) + Cardinality(F) <= Cardinality(Requests)
    BY <1>1, <2>2, <2>3, <2>4, <2>5
  <2>7. QED
    BY <2>6 DEF L, F
<1>4. QED
  BY <1>1, <1>2, <1>3

\* A request that moves from one pc to another is counted at the other.
LEMMA CountMove ==
  ASSUME IsFiniteSet(Requests), NEW r \in Requests, NEW pc,
         \A x \in Requests \ {r} : req'[x] = req[x]
  PROVE  Cardinality(AtPc(pc)') =
           Cardinality(AtPc(pc)) + (IF req'[r].pc = pc THEN 1 ELSE 0)
                                 - (IF At(r, pc) THEN 1 ELSE 0)
<1> DEFINE S == AtPc(pc)  T == AtPc(pc)'
<1>1. IsFiniteSet(S) /\ Cardinality(S) \in Nat
  BY CountsBounded
<1>2. (r \in S) = At(r, pc) /\ (r \in T) = (req'[r].pc = pc) /\ T \ {r} = S \ {r}
  BY DEF AtPc, At
<1>3. /\ r \in T => T = (S \ {r}) \cup {r}
      /\ r \notin T => T = S \ {r}
  BY <1>2
<1>4. /\ IsFiniteSet(S \ {r})
      /\ Cardinality(S \ {r}) = IF r \in S THEN Cardinality(S) - 1 ELSE Cardinality(S)
  BY <1>1, FS_RemoveElement
<1>5. Cardinality((S \ {r}) \cup {r}) = Cardinality(S \ {r}) + 1
  BY <1>4, FS_AddElement
<1> HIDE DEF S, T
<1>6. Cardinality(T) = Cardinality(S) + (IF r \in T THEN 1 ELSE 0) - (IF r \in S THEN 1 ELSE 0)
  <2>1. CASE r \in T
    <3>1. Cardinality(T) = Cardinality(S \ {r}) + 1
      BY <1>3, <1>5, <2>1
    <3>2. QED
      BY <1>1, <1>4, <2>1, <3>1
  <2>2. CASE r \notin T
    <3>1. Cardinality(T) = Cardinality(S \ {r})
      BY <1>3, <2>2
    <3>2. QED
      BY <1>1, <1>4, <2>2, <3>1
  <2>3. QED
    BY <2>1, <2>2
<1>7. QED
  BY <1>2, <1>6 DEF S, T

\* A step that neither counts a wrong password nor sets a lock.
LEMMA QuietBurst ==
  ASSUME IsFiniteSet(Requests), Inv, BurstInv,
         NEW r \in Requests, \A x \in Requests \ {r} : req'[x] = req[x],
         now' = now, account'.failed = account.failed,
         account'.lockedUntil = account.lockedUntil, account'.exists => account.exists,
         ~At(r, "lock"), req'[r].pc \notin {"lock", "failed"}
  PROVE  BurstInv'
<1>1. /\ Cardinality(AtPc("lock")) \in Nat /\ Cardinality(AtPc("failed")) \in Nat
      /\ Cardinality(Requests) \in Nat
  BY CountsBounded
<1>2. Cardinality(AtPc("lock")') = Cardinality(AtPc("lock"))
  BY <1>1, CountMove
<1>3. Cardinality(AtPc("failed")') <= Cardinality(AtPc("failed"))
      /\ Cardinality(AtPc("failed")') \in Int
  BY <1>1, CountMove
<1>4. \A x \in Requests : At(x, "lock")' => At(x, "lock") /\ req'[x] = req[x]
  BY DEF At
<1>5. account.failed \in Nat /\ Threshold \in Nat
  BY ThresholdAssumption DEF Inv, TypeOK, Account
<1>6. QED
  BY <1>1, <1>2, <1>3, <1>4, <1>5 DEF BurstInv

\* If LockAccount does not fail, no step breaks the bound.
LEMMA BurstStep ==
  ASSUME IsFiniteSet(Requests), "lock" \notin FailingCalls, Inv, BurstInv, Next
  PROVE  BurstInv'
<1>0. /\ TypeOK /\ account \in Account /\ now \in Nat
      /\ account.failed \in Nat /\ account.lockedUntil \in Nat
      /\ Threshold \in Nat \ {0} /\ LockoutDuration \in Nat
  BY ThresholdAssumption, DurationAssumption DEF Inv, TypeOK, Account
<1>c. /\ Cardinality(AtPc("lock")) \in Nat /\ Cardinality(AtPc("failed")) \in Nat
      /\ Cardinality(Requests) \in Nat
      /\ Cardinality(AtPc("lock")) <= Cardinality(Requests)
      /\ Cardinality(AtPc("lock")) + Cardinality(AtPc("failed")) <= Cardinality(Requests)
  BY CountsBounded
<1>1. CASE Tick
  <2>1. now' < LockoutDuration => now < LockoutDuration
    BY <1>0, <1>1 DEF Tick
  <2>2. AtPc("lock")' = AtPc("lock") /\ AtPc("failed")' = AtPc("failed")
    BY <1>1 DEF Tick, AtPc, At
  <2>3. QED
    BY <1>1, <2>1, <2>2 DEF Tick, BurstInv, At
<1>2. ASSUME NEW r \in Requests, Arrive(r)
      PROVE  BurstInv'
  <2>0. /\ UNCHANGED <<account, now>> /\ At(r, "idle")
        /\ \A x \in Requests \ {r} : req'[x] = req[x]
    BY <1>0, <1>2, ArriveStep, ArriveOthers
  <2>1. ASSUME NEW p \in Passwords, LoginLookup(r, p)
        PROVE  BurstInv'
    <3>1. req'[r].pc \in {"reset", "failed"}
      BY <1>0, <2>1 DEF LoginLookup, TypeOK, Idle
    <3>2. account.exists /\ ~(account.lockedUntil >= LockoutDuration /\ now < LockoutDuration)
      BY <1>0, <2>1 DEF LoginLookup, Locked
    <3>3. Cardinality(AtPc("lock")') = Cardinality(AtPc("lock"))
      BY <1>c, <2>0, <3>1, CountMove DEF At
    <3>4. \A x \in Requests : At(x, "lock")' => At(x, "lock") /\ req'[x] = req[x]
      BY <2>0, <3>1 DEF At
    <3>5. QED
      BY <2>0, <3>2, <3>3, <3>4 DEF BurstInv
  <2>2. CASE \E p, new \in Passwords : ChangeLookup(r, p, new)
    <3>1. req'[r].pc = "update"
      BY <1>0, <2>2 DEF ChangeLookup, TypeOK, Idle
    <3>2. QED
      BY <2>0, <3>1, QuietBurst DEF At
  <2>3. CASE \E p \in Passwords : DeleteLookup(r, p)
    <3>1. req'[r].pc = "delete_revoke"
      BY <1>0, <2>3 DEF DeleteLookup, TypeOK, Idle
    <3>2. QED
      BY <2>0, <3>1, QuietBurst DEF At
  <2>4. CASE \E s \in sessions : RotateLookup(r, s)
    <3>1. req'[r].pc = "rotate"
      BY <1>0, <2>4 DEF RotateLookup, TypeOK, Idle
    <3>2. QED
      BY <2>0, <3>1, QuietBurst DEF At
  <2>5. QED
    BY <1>2, <2>1, <2>2, <2>3, <2>4 DEF Arrive
<1>3. ASSUME NEW r \in Requests, Continue(r)
      PROVE  BurstInv'
  <2>0. \A x \in Requests \ {r} : req'[x] = req[x]
    BY <1>0, <1>3, OthersStay
  <2>n. now' = now
    BY <1>3
    DEF Continue, LoginFailed, IncrementFailedAttempts, LockAccount, LoginReset, LoginRehash,
        LoginCreate, RotateToken, ChangeUpdate, ChangeRevoke, DeleteRevoke, DeleteUser
  <2>1. CASE LoginFailed(r)
    <3>0. At(r, "failed") /\ ~At(r, "lock")
      BY <2>1 DEF LoginFailed, At
    <3>1. CASE ~account.exists
      <4>1. UNCHANGED account /\ req'[r].pc = "idle"
        BY <1>0, <2>1, <3>1, PcAfter DEF LoginFailed, IncrementFailedAttempts
      <4>2. QED
        BY <2>0, <2>n, <3>0, <4>1, QuietBurst
    <3>2. CASE account.exists /\ ReachesThreshold(account.failed + 1)
      <4>1. req' = [req EXCEPT ![r].pc = "lock", ![r].until = now + LockoutDuration]
        BY <2>1, <3>2 DEF LoginFailed, IncrementFailedAttempts
      <4>2. req[r] \in Request
            /\ req'[r] = [req[r] EXCEPT !.pc = "lock", !.until = now + LockoutDuration]
        BY <1>0, <4>1 DEF TypeOK
      <4>3. req'[r].pc = "lock" /\ req'[r].until = now + LockoutDuration
        BY <4>2 DEF Request
      <4>4. /\ Cardinality(AtPc("lock")') = Cardinality(AtPc("lock")) + 1
            /\ Cardinality(AtPc("failed")') = Cardinality(AtPc("failed")) - 1
        BY <1>c, <2>0, <3>0, <4>3, CountMove
      <4>5. /\ account'.failed = account.failed + 1
            /\ account'.lockedUntil = account.lockedUntil /\ account'.exists = account.exists
        BY <1>0, <2>1, <3>2 DEF LoginFailed, IncrementFailedAttempts, Account
      <4>6. \A x \in Requests : At(x, "lock")' => req'[x].until >= LockoutDuration
        BY <1>0, <2>0, <4>3 DEF BurstInv, At
      <4>7. QED
        BY <1>0, <1>c, <2>n, <3>2, <4>4, <4>5, <4>6 DEF BurstInv
    <3>3. CASE account.exists /\ ~ReachesThreshold(account.failed + 1)
      <4>1. account'.failed = account.failed + 1 /\ req'[r].pc = "idle"
        BY <1>0, <2>1, <3>3, PcAfter DEF LoginFailed, IncrementFailedAttempts, Account
      <4>2. account'.failed <= Threshold - 1
        BY <1>0, <3>3, <4>1 DEF ReachesThreshold
      <4>3. Cardinality(AtPc("lock")') = Cardinality(AtPc("lock"))
        BY <1>c, <2>0, <3>0, <4>1, CountMove
      <4>4. \A x \in Requests : At(x, "lock")' => At(x, "lock") /\ req'[x] = req[x]
        BY <2>0, <4>1 DEF At
      <4>5. account'.failed <= Threshold - 1 + Cardinality(AtPc("lock")')
        BY <1>0, <1>c, <4>1, <4>2, <4>3
      <4>6. QED
        BY <4>4, <4>5 DEF BurstInv
    <3>4. QED
      BY <3>1, <3>2, <3>3
  <2>2. CASE LockAccount(r)
    <3>0. At(r, "lock") /\ req'[r].pc = "idle"
      BY <1>0, <2>2, PcAfter DEF LockAccount
    <3>1. Cardinality(AtPc("failed")') = Cardinality(AtPc("failed"))
      BY <1>c, <2>0, <3>0, CountMove DEF At
    <3>2. \A x \in Requests : At(x, "lock")' => At(x, "lock") /\ req'[x] = req[x]
      BY <2>0, <3>0 DEF At
    <3>3. CASE account.exists
      <4>1. req[r].until >= LockoutDuration
        BY <3>0 DEF BurstInv
      <4>2. account'.failed = account.failed /\ account'.lockedUntil = req[r].until
        BY <1>0, <2>2, <3>3 DEF LockAccount, Account
      <4>3. QED
        BY <1>0, <1>c, <2>n, <3>1, <3>2, <3>3, <4>1, <4>2 DEF BurstInv
    <3>4. CASE ~account.exists
      <4>1. account' = account
        BY <2>2, <3>4 DEF LockAccount
      <4>2. now < LockoutDuration => account.failed <= Threshold - 1 + Cardinality(Requests)
        BY <1>0, <1>c DEF BurstInv
      <4>3. QED
        BY <2>n, <3>2, <3>4, <4>1, <4>2 DEF BurstInv
    <3>5. QED
      BY <3>3, <3>4
  <2>3. CASE LoginReset(r)
    <3>0. ~At(r, "lock") /\ ~At(r, "failed") /\ req'[r].pc \in {"rehash", "create"}
      BY <1>0, <2>3, PcAfter DEF LoginReset, AfterReset, At
    <3>1. CASE account.exists
      <4>1. account'.failed = 0
        BY <1>0, <2>3, <3>1 DEF LoginReset, ResetFailedAttempts, Account
      <4>2. Cardinality(AtPc("lock")') = Cardinality(AtPc("lock"))
        BY <1>c, <2>0, <3>0, CountMove
      <4>3. \A x \in Requests : At(x, "lock")' => At(x, "lock") /\ req'[x] = req[x]
        BY <2>0, <3>0 DEF At
      <4>4. account'.failed <= Threshold - 1 + Cardinality(AtPc("lock")')
        BY <1>0, <1>c, <4>1, <4>2
      <4>5. QED
        BY <4>3, <4>4 DEF BurstInv
    <3>2. CASE ~account.exists
      <4>1. account' = account
        BY <2>3, <3>2 DEF LoginReset, ResetFailedAttempts
      <4>2. QED
        BY <2>0, <2>n, <3>0, <4>1, QuietBurst
    <3>3. QED
      BY <3>1, <3>2
  <2>4. CASE ~LoginFailed(r) /\ ~LockAccount(r) /\ ~LoginReset(r)
    <3>1. /\ account'.failed = account.failed
          /\ account'.lockedUntil = account.lockedUntil
          /\ account'.exists => account.exists
      BY <1>0, <1>3, <2>4
      DEF Continue, LoginRehash, LoginCreate, RotateToken, ChangeUpdate, ChangeRevoke,
          DeleteRevoke, DeleteUser, UpdatePasswordHash, Account
    <3>2. /\ ~At(r, "lock")
          /\ req'[r].pc \in {"idle", "create", "revoke_all", "revoke_commit",
                             "delete_commit", "delete"}
      BY <1>0, <1>3, <2>4, PcAfter, RevokeOthers
      DEF Continue, LoginRehash, LoginCreate, RotateToken, ChangeUpdate, DeleteUser, At
    <3>3. QED
      BY <2>0, <2>n, <3>1, <3>2, QuietBurst
  <2>5. QED
    BY <2>1, <2>2, <2>3, <2>4
<1>4. ASSUME NEW r \in Requests, StoreError(r)
      PROVE  BurstInv'
  <2>1. UNCHANGED <<account, now>> /\ ~At(r, "lock")
    BY <1>4 DEF StoreError, At
  <2>2. \A x \in Requests \ {r} : req'[x] = req[x]
    BY <1>0, <1>4, OthersStay
  <2>3. req'[r].pc \in {"idle", "rehash", "create", "delete"}
    BY <1>0, <1>4, PcAfter DEF StoreError, AfterReset
  <2>4. QED
    BY <2>1, <2>2, <2>3, QuietBurst
<1>5. QED
  BY <1>1, <1>2, <1>3, <1>4 DEF Next

\* Until the first lock can run out, no more wrong passwords are counted than
\* the threshold and one for every other concurrent request, however many
\* requests there are, if LockAccount does not fail.
THEOREM AlwaysBurstBounded ==
  ASSUME IsFiniteSet(Requests), "lock" \notin FailingCalls
  PROVE  Spec => []BurstBounded
<1>1. Init => BurstInv
  <2> SUFFICES ASSUME Init PROVE BurstInv
    OBVIOUS
  <2>1. account.failed = 0 /\ \A r \in Requests : ~At(r, "lock")
    BY IdleRequest DEF Init, At
  <2>2. Cardinality(AtPc("lock")) \in Nat
    BY CountsBounded
  <2>3. account.failed <= Threshold - 1 + Cardinality(AtPc("lock"))
    BY <2>1, <2>2, ThresholdAssumption
  <2>4. QED
    BY <2>1, <2>3 DEF BurstInv
<1>2. Inv /\ BurstInv /\ [Next]_vars => BurstInv'
  <2>1. BurstInv /\ UNCHANGED vars => BurstInv'
    BY DEF BurstInv, AtPc, At, vars
  <2>2. QED
    BY <2>1, BurstStep
<1>3. Inv /\ BurstInv => BurstBounded
  <2>1. Inv => account.failed \in Nat /\ Threshold \in Nat
    BY ThresholdAssumption DEF Inv, TypeOK, Account
  <2>2. QED
    BY <2>1, CountsBounded DEF BurstInv, BurstBounded
<1>4. QED
  BY <1>1, <1>2, <1>3, AlwaysInv, PTL DEF Spec

=============================================================================
