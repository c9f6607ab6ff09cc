------------------------------ MODULE Accounts ------------------------------
(***************************************************************************)
(* The life of one account row: password logins with lockout and hash      *)
(* upgrade (auth.Login), ChangePassword and DeleteAccount, against the     *)
(* UserStore and the calls they make on the SessionStore, and the          *)
(* refreshes that carry the user's logins on meanwhile (token.Rotate).     *)
(*                                                                         *)
(* Every store call is one step of its goroutine.  A handler decides on    *)
(* the row it read first, so other requests may have changed the row by    *)
(* the time it writes.  hasher.Compare(user.PasswordHash, p) succeeds iff  *)
(* the hash was made from p; `stale` is what NeedsRehash says of the hash. *)
(* A statement over all of a user's sessions is one step on SQLite and in  *)
(* memory.  On Postgres (READ COMMITTED) it is two: its snapshot fixes the *)
(* rows it visits, and a row inserted before it commits is not visited.    *)
(* What else ends sessions, a logout or a refresh of a token that was      *)
(* already used, is in module Sessions: here a row may only live longer.   *)
(***************************************************************************)
EXTENDS Integers, FiniteSets

CONSTANTS Requests,        \* goroutines serving requests
          Passwords,       \* plaintext passwords
          Threshold,       \* Config.Lockout.Threshold
          LockoutDuration, \* Config.Lockout.Duration, in clock ticks
          Backend,         \* which stores the engine was configured with
          ForeignKeys,     \* SQLite: does the DSN turn foreign_keys on?
          FailingCalls,    \* the store calls that may return an error
          None,            \* no password
          MaxTime, MaxFailed, MaxChanges, MaxRows  \* bounds on the arrivals

ASSUME PasswordsAssumption == None \notin Passwords
ASSUME ThresholdAssumption == Threshold \in Nat \ {0}
ASSUME DurationAssumption == LockoutDuration \in Nat \ {0}
ASSUME BackendAssumption == Backend \in {"postgres", "sqlite", "memory"}
ASSUME ForeignKeysAssumption == ForeignKeys \in BOOLEAN
ASSUME BoundsAssumption == {MaxTime, MaxFailed, MaxChanges, MaxRows} \subseteq Nat

VARIABLES
  account,  \* the users row
  now,      \* the clock
  req,      \* req[r]: where request r is, and what it read
  changes,  \* history: how many password changes were stored
  sessions, \* the user's live sessions rows
  created   \* how many sessions rows were ever inserted

vars == <<account, now, req, changes, sessions, created>>

\* locked_until NULL is 0: the clock is never before it.
Account == [exists : BOOLEAN, pw : Passwords, stale : BOOLEAN,
            failed : Nat, lockedUntil : Nat]

\* `opened` and `missed` are history: the value of `changes` when the login
\* that the row descends from was inserted, and when a row it descends from
\* was last inserted by a refresh while a change's UPDATE was under way.
Row == [id : Nat, opened : Nat, missed : Nat]

\* A request is idle or about to make the store call that its pc names.
Calls == {"failed", "lock", "reset", "rehash", "create", "rotate", "update",
          "revoke_all", "revoke_commit", "delete_revoke", "delete_commit", "delete"}

PCs == Calls \cup {"idle"}

ASSUME FailingCallsAssumption == FailingCalls \subseteq Calls

Request == [pc    : PCs,
            pw    : Passwords \cup {None},  \* the password it will store
            stale : BOOLEAN,                \* as read from the row
            seen  : Nat,                    \* lockedUntil, as read from the row
            since : Nat,                    \* history: `changes`, when it read the row
            until : Nat,                    \* the lock it will set
            read  : SUBSET Row]             \* the sessions rows it read

Idle == [pc |-> "idle", pw |-> None, stale |-> FALSE, seen |-> 0,
         since |-> 0, until |-> 0, read |-> {}]

TypeOK ==
  /\ account \in Account
  /\ now \in Nat
  /\ req \in [Requests -> Request]
  /\ changes \in Nat
  /\ sessions \subseteq Row
  /\ created \in Nat

Init ==
  /\ \E p \in Passwords, old \in BOOLEAN :
       account = [exists |-> TRUE, pw |-> p, stale |-> old,
                  failed |-> 0, lockedUntil |-> 0]
  /\ now = 0
  /\ req = [r \in Requests |-> Idle]
  /\ changes = 0
  /\ sessions = {}
  /\ created = 0

At(r, pc) == req[r].pc = pc
Goto(r, pc) == req' = [req EXCEPT ![r].pc = pc]
Return(r) == req' = [req EXCEPT ![r] = Idle]

Locked == now < account.lockedUntil

\* Bound: the requests that may insert a row do not pass MaxRows.
Room ==
  created + Cardinality({r \in Requests : req[r].pc \in {"reset", "rehash", "create", "rotate"}})
    < MaxRows

-----------------------------------------------------------------------------
(* The UserStore's updates: an UPDATE of a row that is gone is ErrNotFound. *)

UpdatePasswordHash(p) ==
  account' = IF account.exists
             THEN [account EXCEPT !.pw = p, !.stale = FALSE]
             ELSE account

\* One UPDATE that returns the new count; in SQLite an UPDATE and a SELECT in
\* one transaction.
IncrementFailedAttempts ==
  account' = [account EXCEPT !.failed = @ + 1]

ResetFailedAttempts ==
  account' = IF account.exists
             THEN [account EXCEPT !.failed = 0, !.lockedUntil = 0]
             ELSE account

\* Does INSERT INTO sessions check that the user exists?
ChecksUser == Backend = "postgres" \/ (Backend = "sqlite" /\ ForeignKeys)

\* Mutant: the rows that refer to the user are left behind.
CascadesNothing == FALSE

\* Does UserStore.Delete remove the user's sessions?
Cascades == Backend # "memory"

-----------------------------------------------------------------------------
(* Login *)

\* Mutant: an account that is locked is not turned away.
LoginLookupUnlocked(r, p) ==
  /\ At(r, "idle")
  /\ account.exists
  /\ account.failed < MaxFailed
  /\ p = account.pw => Room
  /\ req' = [req EXCEPT ![r] =
               [Idle EXCEPT !.pc = IF p = account.pw THEN "reset" ELSE "failed",
                            !.pw = p, !.stale = account.stale,
                            !.seen = account.lockedUntil, !.since = changes]]
  /\ UNCHANGED <<account, now, changes, sessions, created>>

\* GetByEmail, the lock check and Compare.  No such user and a locked account
\* return an error and change nothing.
LoginLookup(r, p) ==
  /\ At(r, "idle")
  /\ account.exists
  /\ ~Locked
  /\ account.failed < MaxFailed
  /\ p = account.pw => Room
  /\ req' = [req EXCEPT ![r] =
               [Idle EXCEPT !.pc = IF p = account.pw THEN "reset" ELSE "failed",
                            !.pw = p, !.stale = account.stale,
                            !.seen = account.lockedUntil, !.since = changes]]
  /\ UNCHANGED <<account, now, changes, sessions, created>>

\* Mutant: off by one.
OverThreshold(attempts) == attempts > Threshold

ReachesThreshold(attempts) == attempts >= Threshold

\* IncrementFailedAttempts returns the new count; the time the lock will last
\* to is computed before LockAccount is called.
LoginFailed(r) ==
  /\ At(r, "failed")
  /\ \/ /\ account.exists
        /\ IncrementFailedAttempts
        /\ \/ /\ ReachesThreshold(account.failed + 1)
              /\ req' = [req EXCEPT ![r].pc = "lock",
                                    ![r].until = now + LockoutDuration]
           \/ /\ ~ReachesThreshold(account.failed + 1)
              /\ Return(r)
     \/ /\ ~account.exists
        /\ Return(r)
        /\ UNCHANGED account
  /\ UNCHANGED <<now, changes, sessions, created>>

LockAccount(r) ==
  /\ At(r, "lock")
  /\ account' = IF account.exists
                THEN [account EXCEPT !.lockedUntil = req[r].until]
                ELSE account
  /\ Return(r)
  /\ UNCHANGED <<now, changes, sessions, created>>

\* Mutant: the hash is rewritten by every login.
AfterResetAlways(r) == "rehash"

\* upgradePasswordHash rewrites the hash iff the row that was read is stale.
AfterReset(r) == IF req[r].stale THEN "rehash" ELSE "create"

LoginReset(r) ==
  /\ At(r, "reset")
  /\ ResetFailedAttempts
  /\ Goto(r, AfterReset(r))
  /\ UNCHANGED <<now, changes, sessions, created>>

\* The stored hash is replaced by one of the password that was verified.
LoginRehash(r) ==
  /\ At(r, "rehash")
  /\ UpdatePasswordHash(req[r].pw)
  /\ Goto(r, "create")
  /\ UNCHANGED <<now, changes, sessions, created>>

\* finishLogin, for an account with no second factor.
LoginCreate(r) ==
  /\ At(r, "create")
  /\ \/ /\ account.exists \/ ~ChecksUser
        /\ created' = created + 1
        /\ sessions' = sessions \cup
                         {[id |-> created + 1, opened |-> changes, missed |-> 0]}
     \/ /\ ~account.exists /\ ChecksUser
        /\ UNCHANGED <<sessions, created>>
  /\ Return(r)
  /\ UNCHANGED <<account, now, changes>>

-----------------------------------------------------------------------------
(* RefreshToken *)

\* GetByTokenHash finds a row that is not revoked.
RotateLookup(r, s) ==
  /\ At(r, "idle")
  /\ Room
  /\ req' = [req EXCEPT ![r] = [Idle EXCEPT !.pc = "rotate", !.read = {s}]]
  /\ UNCHANGED <<account, now, changes, sessions, created>>

\* Does RotateToken's first statement match the row?  In memory it does not
\* look whether the row was revoked meanwhile.
RotateMatches(s) == Backend = "memory" \/ s \in sessions

\* Has a password change's UPDATE fixed the rows it visits?
ChangeScanned == \E x \in Requests : At(x, "revoke_commit")

\* One transaction: revoke the row, insert its successor.  If no row matches,
\* or it is gone with its user, ErrNotFound is returned.
RotateToken(r) ==
  /\ At(r, "rotate")
  /\ \E s \in req[r].read :
       \/ /\ RotateMatches(s)
          /\ created' = created + 1
          /\ sessions' = (sessions \ {s}) \cup
                           {[s EXCEPT !.id = created + 1,
                                      !.missed = IF ChangeScanned THEN changes ELSE @]}
       \/ /\ ~RotateMatches(s)
          /\ UNCHANGED <<sessions, created>>
  /\ Return(r)
  /\ UNCHANGED <<account, now, changes>>

-----------------------------------------------------------------------------
(* ChangePassword and DeleteAccount: neither looks at the lock. *)

\* GetByID and Compare; a new password that the policy or the breach check
\* turns down changes nothing.
ChangeLookup(r, p, new) ==
  /\ At(r, "idle")
  /\ account.exists
  /\ p = account.pw
  /\ changes < MaxChanges
  /\ req' = [req EXCEPT ![r] = [Idle EXCEPT !.pc = "update", !.pw = new]]
  /\ UNCHANGED <<account, now, changes, sessions, created>>

\* Mutant: the sessions are not revoked.
ChangeKeepsSessions(r) ==
  /\ At(r, "update")
  /\ UpdatePasswordHash(req[r].pw)
  /\ changes' = changes + 1
  /\ Return(r)
  /\ UNCHANGED <<now, sessions, created>>

ChangeUpdate(r) ==
  /\ At(r, "update")
  /\ UpdatePasswordHash(req[r].pw)
  /\ \/ /\ account.exists
        /\ changes' = changes + 1
        /\ Goto(r, "revoke_all")
     \/ /\ ~account.exists
        /\ Return(r)
        /\ UNCHANGED changes
  /\ UNCHANGED <<now, sessions, created>>

\* RevokeAllForUser where it is one step.
RevokeAllForUser == Backend # "postgres" /\ sessions' = {}

\* On Postgres, its first half: the snapshot fixes the rows it visits.
PgRevokeAllScan(r, next) ==
  /\ Backend = "postgres"
  /\ req' = [req EXCEPT ![r].pc = next, ![r].read = sessions]
  /\ UNCHANGED sessions

\* Second half: those that are not revoked yet are.
PgRevokeAllCommit(r) == sessions' = sessions \ req[r].read

\* After the revocation nil is returned.
ChangeRevoke(r) ==
  /\ \/ At(r, "revoke_all") /\ RevokeAllForUser /\ Return(r)
     \/ At(r, "revoke_all") /\ PgRevokeAllScan(r, "revoke_commit")
     \/ At(r, "revoke_commit") /\ PgRevokeAllCommit(r) /\ Return(r)
  /\ UNCHANGED <<account, now, changes, created>>

DeleteLookup(r, p) ==
  /\ At(r, "idle")
  /\ account.exists
  /\ p = account.pw
  /\ req' = [req EXCEPT ![r] = [Idle EXCEPT !.pc = "delete_revoke"]]
  /\ UNCHANGED <<account, now, changes, sessions, created>>

DeleteRevoke(r) ==
  /\ \/ At(r, "delete_revoke") /\ RevokeAllForUser /\ Goto(r, "delete")
     \/ At(r, "delete_revoke") /\ PgRevokeAllScan(r, "delete_commit")
     \/ At(r, "delete_commit") /\ PgRevokeAllCommit(r) /\ Goto(r, "delete")
  /\ UNCHANGED <<account, now, changes, created>>

DeleteUser(r) ==
  /\ At(r, "delete")
  /\ account' = [account EXCEPT !.exists = FALSE]
  /\ sessions' = IF account.exists /\ Cascades THEN {} ELSE sessions
  /\ Return(r)
  /\ UNCHANGED <<now, changes, created>>

-----------------------------------------------------------------------------

\* A store call fails: the lookups and writes a handler cannot do without end
\* it, the best-effort ones are logged and passed over.
StoreError(r) ==
  /\ req[r].pc \in FailingCalls
  /\ \/ /\ req[r].pc \in {"failed", "lock", "create", "rotate", "update",
                           "revoke_all", "revoke_commit", "delete"}
        /\ Return(r)
     \/ /\ At(r, "reset")
        /\ Goto(r, AfterReset(r))
     \/ /\ At(r, "rehash")
        /\ Goto(r, "create")
     \/ /\ req[r].pc \in {"delete_revoke", "delete_commit"}
        /\ Goto(r, "delete")
  /\ UNCHANGED <<account, now, changes, sessions, created>>

Tick ==
  /\ now < MaxTime
  /\ now' = now + 1
  /\ UNCHANGED <<account, req, changes, sessions, created>>

Arrive(r) ==
  \/ \E p \in Passwords : LoginLookup(r, p)
  \/ \E s \in sessions : RotateLookup(r, s)
  \/ \E p, new \in Passwords : ChangeLookup(r, p, new)
  \/ \E p \in Passwords : DeleteLookup(r, p)

Continue(r) ==
  \/ LoginFailed(r)
  \/ LockAccount(r)
  \/ LoginReset(r)
  \/ LoginRehash(r)
  \/ LoginCreate(r)
  \/ RotateToken(r)
  \/ ChangeUpdate(r)
  \/ ChangeRevoke(r)
  \/ DeleteRevoke(r)
  \/ DeleteUser(r)

Next == Tick \/ \E r \in Requests : Arrive(r) \/ Continue(r) \/ StoreError(r)

Spec == Init /\ [][Next]_vars

-----------------------------------------------------------------------------
(* Properties *)

\* Once the counter reached the threshold the account was locked, or the login
\* that reached it is about to lock it, whoever else fails or succeeds
\* meanwhile (Login's increment-then-lock).
ThresholdLocks ==
  account.exists /\ account.failed >= Threshold
    => \/ account.lockedUntil > 0
       \/ \E r \in Requests : At(r, "lock")

\* Until a lock can first run out, at most one wrong password per concurrent
\* request gets past the threshold.
BurstBounded ==
  now < LockoutDuration =>
    account.failed <= Threshold - 1 + Cardinality(Requests)

\* A lock that is running is lifted or shortened only by a request that read
\* the row before that lock was set.
LockYieldsOnlyToOlder ==
  [][(Locked /\ account'.lockedUntil < account.lockedUntil)
       => \E r \in Requests : /\ req[r].pc \in {"reset", "lock"}
                              /\ req'[r] # req[r]
                              /\ req[r].seen # account.lockedUntil]_vars

\* A password change under way has still to revoke the row.
WillEnd(r, s) == At(r, "revoke_all") \/ (At(r, "revoke_commit") /\ s \in req[r].read)

\* What ChangePassword promises: a session opened before a password change does
\* not outlive the revocation that goes with the change.
ChangeEndsSessions ==
  \A s \in sessions : s.opened = changes \/ \E r \in Requests : WillEnd(r, s)

\* What it does on Postgres: a login from before the last change is still alive
\* after its revocation only where a refresh replaced the row in the middle of
\* a change's UPDATE; every other refresh and login in flight is caught.
NoSessionOutlivesChange ==
  \A s \in sessions :
    s.opened = changes \/ s.missed = changes \/ \E r \in Requests : WillEnd(r, s)

\* A user that was deleted has no session left, even if a login was in flight
\* between DeleteAccount's revocation and its Delete.
DeletedAccountHasNoSessions == ~account.exists => sessions = {}

\* The password of the account is replaced by ChangePassword, or by the hash
\* upgrade of a login that read the row before the last change; no login that
\* read the row since then puts another password back (upgradePasswordHash).
PasswordYieldsOnlyToOlder ==
  [][account'.pw # account.pw
       => \/ changes' # changes
          \/ \E r \in Requests : /\ At(r, "rehash")
                                 /\ req'[r] # req[r]
                                 /\ req[r].since < changes]_vars

=============================================================================
