------------------------------ MODULE Sessions ------------------------------
(***************************************************************************)
(* Refresh-token sessions: the SessionStore (store/postgres, store/sqlite, *)
(* store/memory) and the handlers that write to it: finishLogin,           *)
(* RefreshToken (token.Rotate), Logout, session.Revoke and LogoutAll.      *)
(*                                                                         *)
(* Each request runs in its own goroutine, and every call on the store is  *)
(* one step: what a handler read in one step may be stale when it writes   *)
(* in the next.  A refresh token is identified with the id of the session  *)
(* row that holds its hash (256 random bits per token, a unique column),   *)
(* so a session id also names the token handed to the client.              *)
(*                                                                         *)
(* The backends differ where it matters.  The SQL statements revoke only   *)
(* rows WHERE revoked_at IS NULL, the memory store overwrites; a Postgres  *)
(* UPDATE over many rows works on the snapshot taken when the statement    *)
(* started (READ COMMITTED), SQLite and the memory store serialise writers.*)
(***************************************************************************)
EXTENDS Integers, FiniteSets

CONSTANTS Users,      \* user ids
          Sids,       \* session ids; the bound on how many are ever issued
          Requests,   \* goroutines serving requests
          Backend,    \* which SessionStore the engine was configured with
          StoreFails, \* may a store call return an error?
          None        \* the absent row, id or user

Row == [family : Sids, user : Users, revoked : BOOLEAN]

ASSUME BackendAssumption == Backend \in {"postgres", "sqlite", "memory"}
ASSUME StoreFailsAssumption == StoreFails \in BOOLEAN
ASSUME NoneAssumption == None \notin Sids \cup Users \cup Row

VARIABLES
  sessions,   \* the sessions table, by id
  req,        \* req[r]: where request r is, and what it read
  delivered,  \* tokens that were returned to a client
  ended       \* history: families a caller was told are ended, by operation

vars == <<sessions, req, delivered, ended>>

-----------------------------------------------------------------------------
(* The table *)

Stored == {s \in Sids : sessions[s] # None}
Live   == {s \in Stored : ~sessions[s].revoked}
FamilyOf(s) == sessions[s].family
FamilyMembers(f) == {s \in Stored : FamilyOf(s) = f}

Operations == {"logout", "logout_all", "reuse"}

PCs == {"idle", "create", "rotate", "claims", "reuse", "revoke",
        "logout_all", "reuse_update", "logout_all_update"}

Idle == [pc |-> "idle", user |-> None, old |-> None, new |-> None, snap |-> {}]

Request == [pc   : PCs,
            user : Users \cup {None},
            old  : Sids \cup {None},   \* the row that was looked up
            new  : Sids \cup {None},   \* the id drawn for a new row
            snap : SUBSET Sids]        \* rows an UPDATE's snapshot matched

TypeOK ==
  /\ sessions \in [Sids -> Row \cup {None}]
  /\ req \in [Requests -> Request]
  /\ delivered \subseteq Sids
  /\ ended \in [Operations -> SUBSET Sids]

Init ==
  /\ sessions = [s \in Sids |-> None]
  /\ req = [r \in Requests |-> Idle]
  /\ delivered = {}
  /\ ended = [o \in Operations |-> {}]

At(r, pc) == req[r].pc = pc
Return(r) == req' = [req EXCEPT ![r] = Idle]

\* UPDATE sessions SET revoked_at = now() on the rows of S.
Revoked(table, S) ==
  [s \in Sids |-> IF s \in S THEN [table[s] EXCEPT !.revoked = TRUE]
                             ELSE table[s]]

\* INSERT INTO sessions; a new row is not revoked.
Inserted(table, s, f, u) ==
  [table EXCEPT ![s] = [family |-> f, user |-> u, revoked |-> FALSE]]

\* ids.New(): a UUIDv7 that no row has and no other request holds.
FreshIds == Sids \ (Stored \cup {req[r].new : r \in Requests})

-----------------------------------------------------------------------------
(* finishLogin: the access token is issued first, so that a claims provider *)
(* that fails leaves no row behind; then the row is created.                *)

LoginIssue(r, u) ==
  /\ At(r, "idle")
  /\ \E s \in FreshIds :
       req' = [req EXCEPT ![r] = [Idle EXCEPT !.pc = "create", !.user = u,
                                              !.new = s]]
  /\ UNCHANGED <<sessions, delivered, ended>>

\* Mutant: the row is created first and the access token issued after it.
LoginCreateThenIssue(r) ==
  /\ At(r, "create")
  /\ sessions' = Inserted(sessions, req[r].new, req[r].new, req[r].user)
  /\ req' = [req EXCEPT ![r].pc = "claims"]
  /\ UNCHANGED <<delivered, ended>>

\* sessions.Create.  A failing audit record is only logged, so the login
\* returns its tokens.
LoginCreate(r) ==
  /\ At(r, "create")
  /\ sessions' = Inserted(sessions, req[r].new, req[r].new, req[r].user)
  /\ delivered' = delivered \cup {req[r].new}
  /\ Return(r)
  /\ UNCHANGED <<ended>>

-----------------------------------------------------------------------------
(* RefreshToken, token.Rotate *)

\* GetByTokenHash finds revoked rows too: that is how reuse is noticed.  A
\* token with no row returns ErrInvalidToken and changes nothing.
RotateLookup(r, t) ==
  /\ At(r, "idle")
  /\ t \in delivered
  /\ \/ /\ t \notin Live
        /\ req' = [req EXCEPT ![r] = [Idle EXCEPT !.pc = "reuse", !.old = t]]
     \/ /\ t \in Live
        /\ \E s \in FreshIds :
             req' = [req EXCEPT ![r] = [Idle EXCEPT !.pc = "rotate", !.old = t,
                                                    !.new = s]]
  /\ UNCHANGED <<sessions, delivered, ended>>

\* Mutant: the UPDATE loses its AND revoked_at IS NULL.
RotateMatchesAnyRow(s) == TRUE

\* Does RotateToken's first statement match the old row?
RotateMatches(s) ==
  \/ Backend = "memory"
  \/ s \in Live

\* One transaction: revoke the old row, insert the new one in its family.
\* If the UPDATE matches no row it is rolled back and ErrNotFound returned.
RotateToken(r) ==
  /\ At(r, "rotate")
  /\ LET old == req[r].old
         new == req[r].new
     IN  \/ /\ RotateMatches(old)
            /\ sessions' = Inserted(Revoked(sessions, {old}), new,
                                    FamilyOf(old), sessions[old].user)
            /\ req' = [req EXCEPT ![r].pc = "claims"]
         \/ /\ ~RotateMatches(old)
            /\ Return(r)
            /\ UNCHANGED <<sessions>>
  /\ UNCHANGED <<delivered, ended>>

\* The access token is issued after the rotation.  A claims provider that
\* fails here loses the new refresh token: it is stored and never returned.
RotateIssue(r) ==
  /\ At(r, "claims")
  /\ delivered' \in {delivered, delivered \cup {req[r].new}}
  /\ Return(r)
  /\ UNCHANGED <<sessions, ended>>

-----------------------------------------------------------------------------
(* Statements over many rows: RevokeFamily and RevokeAllForUser *)

\* Mutant: only the presented row is revoked.
RowsOfFamilyOnlyPresented(s) == {s}

RowsOfFamily(s) == {x \in Live : FamilyOf(x) = FamilyOf(s)}
RowsOfUser(u)   == {x \in Live : sessions[x].user = u}

\* ErrTokenReused is returned: the caller knows the family as revoked.
ReportReuse(r) ==
  ended' = [ended EXCEPT !["reuse"] = @ \cup {FamilyOf(req[r].old)}]

\* LogoutAll returns nil: the logins of the rows it found are ended.
ReportLogoutAll(found) ==
  ended' = [ended EXCEPT !["logout_all"] = @ \cup {FamilyOf(s) : s \in found}]

RevokeFamily(r) ==
  /\ Backend # "postgres"
  /\ At(r, "reuse")
  /\ sessions' = Revoked(sessions, RowsOfFamily(req[r].old))
  /\ ReportReuse(r)
  /\ Return(r)
  /\ UNCHANGED delivered

RevokeAllForUser(r) ==
  /\ Backend # "postgres"
  /\ At(r, "logout_all")
  /\ sessions' = Revoked(sessions, RowsOfUser(req[r].user))
  /\ ReportLogoutAll({s \in Live : sessions[s].user = req[r].user})
  /\ Return(r)
  /\ UNCHANGED delivered

\* Postgres, first half: the statement's snapshot fixes the rows it visits.
PgRevokeFamilyScan(r) ==
  /\ Backend = "postgres"
  /\ At(r, "reuse")
  /\ req' = [req EXCEPT ![r].pc = "reuse_update",
                        ![r].snap = RowsOfFamily(req[r].old)]
  /\ UNCHANGED <<sessions, delivered, ended>>

PgRevokeAllScan(r) ==
  /\ Backend = "postgres"
  /\ At(r, "logout_all")
  /\ req' = [req EXCEPT ![r].pc = "logout_all_update",
                        ![r].snap = RowsOfUser(req[r].user)]
  /\ UNCHANGED <<sessions, delivered, ended>>

\* Second half: rows of the snapshot are revoked; one that another
\* transaction revoked in between no longer matches and is skipped, and one
\* that was inserted in between is not visited.
PgRevokeFamilyCommit(r) ==
  /\ Backend = "postgres"
  /\ At(r, "reuse_update")
  /\ sessions' = Revoked(sessions, req[r].snap)
  /\ ReportReuse(r)
  /\ Return(r)
  /\ UNCHANGED delivered

PgRevokeAllCommit(r) ==
  /\ Backend = "postgres"
  /\ At(r, "logout_all_update")
  /\ sessions' = Revoked(sessions, req[r].snap)
  /\ ReportLogoutAll(req[r].snap)
  /\ Return(r)
  /\ UNCHANGED delivered

-----------------------------------------------------------------------------
(* Logout, session.Revoke, LogoutAll *)

\* GetByID and the ownership check; another user's id is ErrSessionNotOwned.
OwnedLookup(r, s, u) ==
  /\ At(r, "idle")
  /\ s \in Stored
  /\ sessions[s].user = u
  /\ req' = [req EXCEPT ![r] = [Idle EXCEPT !.pc = "revoke", !.old = s]]
  /\ UNCHANGED <<sessions, delivered, ended>>

\* Mutant: the UPDATE loses its AND revoked_at IS NULL.
RevokeMatchesAnyRow(s) == TRUE

\* Does SessionStore.Revoke match the row?
RevokeMatches(s) ==
  \/ Backend = "memory"
  \/ s \in Live

\* Revoke(sessionID); no row matched is ErrNotFound and not a logout.
Revoke(r) ==
  /\ At(r, "revoke")
  /\ LET s == req[r].old
     IN  \/ /\ RevokeMatches(s)
            /\ sessions' = Revoked(sessions, {s})
            /\ ended' = [ended EXCEPT !["logout"] = @ \cup {FamilyOf(s)}]
         \/ /\ ~RevokeMatches(s)
            /\ UNCHANGED <<sessions, ended>>
  /\ Return(r)
  /\ UNCHANGED delivered

LogoutAll(r, u) ==
  /\ At(r, "idle")
  /\ req' = [req EXCEPT ![r] = [Idle EXCEPT !.pc = "logout_all", !.user = u]]
  /\ UNCHANGED <<sessions, delivered, ended>>

\* A store call returns an error (a lost connection, a cancelled context):
\* the statement is rolled back and the handler returns the error.
StoreError(r) ==
  /\ StoreFails
  /\ req[r].pc \notin {"idle", "claims"}
  /\ Return(r)
  /\ UNCHANGED <<sessions, delivered, ended>>

-----------------------------------------------------------------------------

\* A request arrives.
Arrive(r) ==
  \/ \E u \in Users : LoginIssue(r, u)
  \/ \E t \in Sids : RotateLookup(r, t)
  \/ \E s \in Sids, u \in Users : OwnedLookup(r, s, u)
  \/ \E u \in Users : LogoutAll(r, u)

\* The handler makes its next call.
Continue(r) ==
  \/ LoginCreate(r)
  \/ RotateToken(r)
  \/ RotateIssue(r)
  \/ RevokeFamily(r)
  \/ RevokeAllForUser(r)
  \/ PgRevokeFamilyScan(r)
  \/ PgRevokeFamilyCommit(r)
  \/ PgRevokeAllScan(r)
  \/ PgRevokeAllCommit(r)
  \/ Revoke(r)

Next == \E r \in Requests : Arrive(r) \/ Continue(r) \/ StoreError(r)

Spec == Init /\ [][Next]_vars

\* A goroutine that is running is eventually scheduled, and the store answers.
Fairness == \A r \in Requests : WF_vars(Continue(r))

FairSpec == Spec /\ Fairness

-----------------------------------------------------------------------------
(* Properties *)

\* A login has at most one usable refresh token at any time: two concurrent
\* refreshes of one token do not both get a session (RotateToken).
OneLivePerFamily ==
  \A s, t \in Live : FamilyOf(s) = FamilyOf(t) => s = t

\* The families that operation o reported as ended have no live session left,
\* whatever refreshes were in flight.
StaysDead(o) == \A s \in Live : FamilyOf(s) \notin ended[o]

\* A successful Logout or session.Revoke ends the login, even when the client
\* was refreshing its token at the same moment.
LogoutEndsFamily == StaysDead("logout")

\* When RefreshToken returns ErrTokenReused the whole family is revoked, and
\* no refresh that was in flight brings it back.
ReuseEndsFamily == StaysDead("reuse")

\* All three: what a caller was told is ended stays ended.
EndedFamiliesStayDead == \A o \in Operations : StaysDead(o)

\* A login never leaves a usable session whose token nobody was given: only a
\* refresh whose claims provider failed may do that (finishLogin's order).
LoginLeavesNoOrphan ==
  \A s \in Live : FamilyOf(s) = s => s \in delivered

\* A revoked token that is presented again brings its whole family down
\* (Rotate's step 3), provided the store answers.
ReplayEndsFamily ==
  \A r \in Requests, f \in Sids :
    (At(r, "reuse") /\ FamilyOf(req[r].old) = f)
      ~> (FamilyMembers(f) \cap Live = {})

\* The promise of TokenFamilies, read off the table.
Current == [f \in Sids |->
              IF \E s \in Live : FamilyOf(s) = f
              THEN CHOOSE s \in Live : FamilyOf(s) = f
              ELSE None]

Families == INSTANCE TokenFamilies
              WITH Tokens <- Sids, NoToken <- None,
                   current <- Current, used <- Stored

FamiliesSpec == Families!Spec

=============================================================================
