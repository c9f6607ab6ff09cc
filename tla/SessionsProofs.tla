--------------------------- MODULE SessionsProofs ---------------------------
(***************************************************************************)
(* Proofs about module Sessions, for every set of users, session ids and   *)
(* concurrent requests.                                                    *)
(*                                                                         *)
(* OneLivePerFamily is not inductive: a login that is about to create its  *)
(* row must not find that some family already has that name, and two       *)
(* requests must not hold the same new id.  RequestsOK and FamiliesStored  *)
(* say so.                                                                 *)
(***************************************************************************)
EXTENDS Sessions, TLAPS

\* What each request holds agrees with where it is.
RequestsOK ==
  \A r \in Requests :
    /\ At(r, "create") => /\ req[r].new \in Sids \ Stored
                          /\ req[r].user \in Users
    /\ At(r, "rotate") => /\ req[r].new \in Sids \ Stored
                          /\ req[r].old \in Stored
    /\ At(r, "claims") => req[r].new \in Stored
    /\ req[r].pc \in {"reuse", "reuse_update", "revoke"} => req[r].old \in Stored
    /\ req[r].snap \subseteq Stored

\* No two requests hold the same new id.
IdsDistinct ==
  \A r, q \in Requests :
    (req[r].new # None /\ req[r].new = req[q].new) => r = q

\* A family is named by a row that exists, and only stored tokens are known.
FamiliesStored ==
  /\ \A s \in Stored : FamilyOf(s) \in Stored
  /\ delivered \subseteq Stored

Consistent == TypeOK /\ RequestsOK /\ IdsDistinct /\ FamiliesStored

-----------------------------------------------------------------------------
(* What the table updates do *)

\* The absent value is neither a row nor an id.
LEMMA NoneNotRow == None \notin Row /\ None \notin Sids /\ None \notin Users
  BY NoneAssumption

\* Revoking rows of the table changes their revoked column and nothing else.
LEMMA RevokedTable ==
  ASSUME sessions \in [Sids -> Row \cup {None}], NEW S \in SUBSET Stored
  PROVE  LET t == Revoked(sessions, S)
         IN  /\ t \in [Sids -> Row \cup {None}]
             /\ \A s \in Sids : (t[s] # None) <=> (sessions[s] # None)
             /\ \A s \in Stored : /\ t[s].family = sessions[s].family
                                  /\ t[s].user = sessions[s].user
                                  /\ t[s].revoked = (sessions[s].revoked \/ s \in S)
<1>1. \A s \in Stored : sessions[s] \in Row
  BY DEF Stored
<1>2. \A s \in S : /\ Revoked(sessions, S)[s] \in Row
                   /\ Revoked(sessions, S)[s].family = sessions[s].family
                   /\ Revoked(sessions, S)[s].user = sessions[s].user
                   /\ Revoked(sessions, S)[s].revoked = TRUE
  BY <1>1 DEF Revoked, Stored, Row
<1>3. \A s \in Sids \ S : Revoked(sessions, S)[s] = sessions[s]
  BY DEF Revoked
<1>4. Revoked(sessions, S) \in [Sids -> Row \cup {None}]
  BY <1>2, <1>3 DEF Revoked, Stored
<1>5. \A s \in Sids : (Revoked(sessions, S)[s] # None) <=> (sessions[s] # None)
  BY <1>1, <1>2, <1>3, NoneNotRow DEF Stored
<1>6. \A s \in Stored : sessions[s].revoked \in BOOLEAN
  BY <1>1 DEF Row
<1>7. QED
  BY <1>2, <1>3, <1>4, <1>5, <1>6 DEF Stored

\* Inserting a row changes no other row.
LEMMA InsertedTable ==
  ASSUME NEW t \in [Sids -> Row \cup {None}],
         NEW s \in Sids, NEW f \in Sids, NEW u \in Users
  PROVE  /\ Inserted(t, s, f, u) \in [Sids -> Row \cup {None}]
         /\ \A x \in Sids \ {s} : Inserted(t, s, f, u)[x] = t[x]
         /\ Inserted(t, s, f, u)[s] = [family |-> f, user |-> u, revoked |-> FALSE]
         /\ Inserted(t, s, f, u)[s] \in Row
  BY DEF Inserted, Row

\* The three ways a step writes to the table: a login, a rotation, a
\* revocation of some rows.
LoginWrites(s, u) ==
  sessions' = Inserted(sessions, s, s, u)

RotateWrites(old, new) ==
  sessions' = Inserted(Revoked(sessions, {old}), new, FamilyOf(old),
                       sessions[old].user)

RevokeWrites(S) ==
  sessions' = Revoked(sessions, S)

\* finishLogin's INSERT adds one live row that starts its own family.
LEMMA LoginTable ==
  ASSUME TypeOK, NEW s \in Sids \ Stored, NEW u \in Users, LoginWrites(s, u)
  PROVE  /\ sessions' \in [Sids -> Row \cup {None}]
         /\ Stored' = Stored \cup {s}
         /\ Live' = Live \cup {s}
         /\ \A x \in Stored : sessions'[x] = sessions[x]
         /\ sessions'[s].family = s
<1>1. sessions \in [Sids -> Row \cup {None}]
  BY DEF TypeOK
<1>2. /\ sessions' \in [Sids -> Row \cup {None}]
      /\ \A x \in Sids \ {s} : sessions'[x] = sessions[x]
      /\ sessions'[s] = [family |-> s, user |-> u, revoked |-> FALSE]
      /\ sessions'[s] \in Row
  BY <1>1, InsertedTable DEF LoginWrites
<1>3. sessions'[s] # None
  BY <1>2, NoneNotRow
<1>4. Stored' = Stored \cup {s}
  BY <1>2, <1>3 DEF Stored
<1>5. Live' = Live \cup {s}
  BY <1>2, <1>4 DEF Live, Stored
<1>6. QED
  BY <1>2, <1>4, <1>5 DEF Stored

\* RotateToken replaces the live row old by new in the same family.
LEMMA RotateTable ==
  ASSUME TypeOK, NEW old \in Stored, NEW new \in Sids \ Stored,
         RotateWrites(old, new)
  PROVE  /\ sessions' \in [Sids -> Row \cup {None}]
         /\ Stored' = Stored \cup {new}
         /\ Live' = (Live \ {old}) \cup {new}
         /\ \A x \in Stored : /\ sessions'[x].family = sessions[x].family
                              /\ sessions'[x].user = sessions[x].user
         /\ sessions'[new].family = sessions[old].family
<1> DEFINE t == Revoked(sessions, {old})
<1>1. sessions \in [Sids -> Row \cup {None}] /\ {old} \in SUBSET Stored
  BY DEF TypeOK
<1>2. /\ t \in [Sids -> Row \cup {None}]
      /\ \A x \in Sids : (t[x] # None) <=> (sessions[x] # None)
      /\ \A x \in Stored : /\ t[x].family = sessions[x].family
                           /\ t[x].user = sessions[x].user
                           /\ t[x].revoked = (sessions[x].revoked \/ x \in {old})
  BY <1>1, RevokedTable
<1>3. sessions[old] \in Row
  BY <1>1 DEF Stored
<1>4. FamilyOf(old) \in Sids /\ sessions[old].user \in Users
  BY <1>3 DEF Row, FamilyOf
<1>5. sessions' = Inserted(t, new, FamilyOf(old), sessions[old].user)
  BY DEF RotateWrites
<1> HIDE DEF t
<1>6. /\ sessions' \in [Sids -> Row \cup {None}]
      /\ \A x \in Sids \ {new} : sessions'[x] = t[x]
      /\ sessions'[new] = [family |-> FamilyOf(old), user |-> sessions[old].user,
                           revoked |-> FALSE]
      /\ sessions'[new] \in Row
  BY <1>2, <1>4, <1>5, InsertedTable
<1>7. sessions'[new] # None
  BY <1>6, NoneNotRow
<1>8. Stored' = Stored \cup {new}
  BY <1>2, <1>6, <1>7 DEF Stored
<1>9. \A x \in Stored : x # new /\ sessions'[x] = t[x]
  BY <1>6 DEF Stored
<1>10. \A x \in Stored : sessions[x].revoked \in BOOLEAN
  BY <1>1 DEF Stored, Row
<1>11. \A x \in Stored : sessions'[x].revoked <=> (sessions[x].revoked \/ x = old)
  BY <1>2, <1>9, <1>10
<1>12. ~sessions'[new].revoked
  BY <1>6
<1>13. Live' = (Live \ {old}) \cup {new}
  BY <1>8, <1>11, <1>12 DEF Live
<1>14. sessions'[new].family = sessions[old].family
  BY <1>6 DEF FamilyOf
<1>15. QED
  BY <1>2, <1>6, <1>8, <1>9, <1>13, <1>14

\* A revocation takes the rows of S out of the live rows, no more.
LEMMA RevokeTable ==
  ASSUME TypeOK, NEW S \in SUBSET Stored, RevokeWrites(S)
  PROVE  /\ sessions' \in [Sids -> Row \cup {None}]
         /\ Stored' = Stored
         /\ Live' = Live \ S
         /\ \A x \in Stored : /\ sessions'[x].family = sessions[x].family
                              /\ sessions'[x].user = sessions[x].user
<1>1. sessions \in [Sids -> Row \cup {None}]
  BY DEF TypeOK
<1>2. /\ sessions' \in [Sids -> Row \cup {None}]
      /\ \A x \in Sids : (sessions'[x] # None) <=> (sessions[x] # None)
      /\ \A x \in Stored : /\ sessions'[x].family = sessions[x].family
                           /\ sessions'[x].user = sessions[x].user
                           /\ sessions'[x].revoked = (sessions[x].revoked \/ x \in S)
  BY <1>1, RevokedTable DEF RevokeWrites
<1>3. Stored' = Stored
  BY <1>2 DEF Stored
<1>4. \A x \in Stored : sessions[x].revoked \in BOOLEAN
  BY <1>1 DEF Stored, Row
<1>5. \A x \in Stored : sessions'[x].revoked <=> (sessions[x].revoked \/ x \in S)
  BY <1>2, <1>4
<1>6. Live' = Live \ S
  BY <1>3, <1>5 DEF Live
<1>7. QED
  BY <1>2, <1>3, <1>6

-----------------------------------------------------------------------------
(* Consistent is inductive *)

\* A request that starts, with a new id nobody holds or with none.
LEMMA ArriveConsistent ==
  ASSUME Consistent, NEW r \in Requests, NEW q \in Request,
         req' = [req EXCEPT ![r] = q],
         UNCHANGED <<sessions, delivered, ended>>,
         q.new \in FreshIds \cup {None},
         q.pc = "create" => q.new # None /\ q.user \in Users,
         q.pc = "rotate" => q.new # None /\ q.old \in Stored,
         q.pc # "claims",
         q.pc \in {"reuse", "reuse_update", "revoke"} => q.old \in Stored,
         q.snap \subseteq Stored
  PROVE  Consistent'
<1>1. TypeOK'
  BY DEF Consistent, TypeOK
<1>2. Stored' = Stored
  BY DEF Stored
<1>3. req'[r] = q /\ \A x \in Requests \ {r} : req'[x] = req[x]
  BY DEF Consistent, TypeOK
<1>4. RequestsOK'
  BY <1>2, <1>3 DEF Consistent, RequestsOK, At, FreshIds
<1>5. \A x \in Requests : q.new # None => q.new # req[x].new
  BY NoneNotRow DEF FreshIds
<1>6. IdsDistinct'
  BY <1>3, <1>5 DEF Consistent, IdsDistinct
<1>7. FamiliesStored'
  BY <1>2 DEF Consistent, FamiliesStored, FamilyOf
<1>8. QED
  BY <1>1, <1>4, <1>6, <1>7 DEF Consistent

\* A finished request is a well-formed one.
LEMMA IdleRequest == Idle \in Request /\ Idle.pc = "idle" /\ Idle.new = None /\ Idle.snap = {}
  BY DEF Idle, Request, PCs

\* The arrival of a request keeps Consistent and does not write.
LEMMA ArriveStep ==
  ASSUME Consistent, NEW r \in Requests, Arrive(r)
  PROVE  Consistent' /\ UNCHANGED sessions
<1>1. ASSUME NEW u \in Users, LoginIssue(r, u)
      PROVE  Consistent' /\ UNCHANGED sessions
  <2>1. PICK s \in FreshIds :
          req' = [req EXCEPT ![r] = [Idle EXCEPT !.pc = "create", !.user = u, !.new = s]]
    BY <1>1 DEF LoginIssue
  <2> DEFINE q == [Idle EXCEPT !.pc = "create", !.user = u, !.new = s]
  <2>2. s \in Sids /\ s # None
    BY NoneNotRow DEF FreshIds
  <2>3. q \in Request /\ q.pc = "create" /\ q.new = s /\ q.user = u /\ q.snap = {}
    BY <2>2 DEF Idle, Request, PCs
  <2> HIDE DEF q
  <2>4. req' = [req EXCEPT ![r] = q]
    BY <2>1 DEF q
  <2>5. QED
    BY <1>1, <2>2, <2>3, <2>4, ArriveConsistent DEF LoginIssue
<1>2. ASSUME NEW t \in Sids, RotateLookup(r, t)
      PROVE  Consistent' /\ UNCHANGED sessions
  <2>1. t \in Stored
    BY <1>2 DEF RotateLookup, Consistent, FamiliesStored
  <2>2. CASE t \notin Live
    <3> DEFINE q == [Idle EXCEPT !.pc = "reuse", !.old = t]
    <3>1. q \in Request /\ q.pc = "reuse" /\ q.new = None /\ q.old = t /\ q.snap = {}
      BY DEF Idle, Request, PCs
    <3>2. req' = [req EXCEPT ![r] = q]
      BY <1>2, <2>2 DEF RotateLookup
    <3> HIDE DEF q
    <3>3. QED
      BY <1>2, <2>1, <3>1, <3>2, ArriveConsistent DEF RotateLookup
  <2>3. CASE t \in Live
    <3>1. PICK s \in FreshIds :
            req' = [req EXCEPT ![r] = [Idle EXCEPT !.pc = "rotate", !.old = t, !.new = s]]
      BY <1>2, <2>3 DEF RotateLookup
    <3> DEFINE q == [Idle EXCEPT !.pc = "rotate", !.old = t, !.new = s]
    <3>2. s \in Sids /\ s # None
      BY NoneNotRow DEF FreshIds
    <3>3. q \in Request /\ q.pc = "rotate" /\ q.new = s /\ q.old = t /\ q.snap = {}
      BY <3>2 DEF Idle, Request, PCs
    <3> HIDE DEF q
    <3>4. req' = [req EXCEPT ![r] = q]
      BY <3>1 DEF q
    <3>5. QED
      BY <1>2, <2>1, <3>2, <3>3, <3>4, ArriveConsistent DEF RotateLookup
  <2>4. QED
    BY <2>2, <2>3
<1>3. ASSUME NEW s \in Sids, NEW u \in Users, OwnedLookup(r, s, u)
      PROVE  Consistent' /\ UNCHANGED sessions
  <2> DEFINE q == [Idle EXCEPT !.pc = "revoke", !.old = s]
  <2>1. q \in Request /\ q.pc = "revoke" /\ q.new = None /\ q.old = s /\ q.snap = {}
    BY DEF Idle, Request, PCs
  <2>2. req' = [req EXCEPT ![r] = q] /\ s \in Stored
    BY <1>3 DEF OwnedLookup
  <2> HIDE DEF q
  <2>3. QED
    BY <1>3, <2>1, <2>2, ArriveConsistent DEF OwnedLookup
<1>4. ASSUME NEW u \in Users, LogoutAll(r, u)
      PROVE  Consistent' /\ UNCHANGED sessions
  <2> DEFINE q == [Idle EXCEPT !.pc = "logout_all", !.user = u]
  <2>1. q \in Request /\ q.pc = "logout_all" /\ q.new = None /\ q.snap = {}
    BY DEF Idle, Request, PCs
  <2>2. req' = [req EXCEPT ![r] = q]
    BY <1>4 DEF LogoutAll
  <2> HIDE DEF q
  <2>3. QED
    BY <1>4, <2>1, <2>2, ArriveConsistent DEF LogoutAll
<1>5. QED
  BY <1>1, <1>2, <1>3, <1>4 DEF Arrive

\* A step that revokes rows, or none, and ends the request.
LEMMA RevokingConsistent ==
  ASSUME Consistent, NEW r \in Requests, NEW q \in Request,
         NEW S \in SUBSET Stored, RevokeWrites(S),
         req' = [req EXCEPT ![r] = q],
         q.pc = "idle", q.new = None, q.snap = {},
         delivered' = delivered, ended' \in [Operations -> SUBSET Sids]
  PROVE  Consistent'
<1>0. TypeOK
  BY DEF Consistent
<1>1. /\ sessions' \in [Sids -> Row \cup {None}]
      /\ Stored' = Stored
      /\ \A x \in Stored : sessions'[x].family = sessions[x].family
  BY <1>0, RevokeTable
<1>2. TypeOK'
  BY <1>0, <1>1 DEF TypeOK
<1>3. req'[r] = q /\ \A x \in Requests \ {r} : req'[x] = req[x]
  BY <1>0 DEF TypeOK
<1>4. RequestsOK'
  BY <1>1, <1>3 DEF Consistent, RequestsOK, At
<1>5. IdsDistinct'
  BY <1>3 DEF Consistent, IdsDistinct
<1>6. FamiliesStored'
  BY <1>1 DEF Consistent, FamiliesStored, FamilyOf
<1>7. QED
  BY <1>2, <1>4, <1>5, <1>6 DEF Consistent

\* Taking a statement's snapshot.
LEMMA ScanConsistent ==
  ASSUME Consistent, NEW r \in Requests, NEW q \in Request,
         UNCHANGED <<sessions, delivered, ended>>,
         req' = [req EXCEPT ![r] = q],
         q.pc \in {"reuse_update", "logout_all_update"},
         q.new = req[r].new,
         q.pc = "reuse_update" => q.old \in Stored,
         q.snap \subseteq Stored
  PROVE  Consistent'
<1>1. TypeOK'
  BY DEF Consistent, TypeOK
<1>2. Stored' = Stored
  BY DEF Stored
<1>3. req'[r] = q /\ \A x \in Requests \ {r} : req'[x] = req[x]
  BY DEF Consistent, TypeOK
<1>4. RequestsOK'
  BY <1>2, <1>3 DEF Consistent, RequestsOK, At
<1>5. IdsDistinct'
  BY <1>3 DEF Consistent, IdsDistinct
<1>6. FamiliesStored'
  BY <1>2 DEF Consistent, FamiliesStored, FamilyOf
<1>7. QED
  BY <1>1, <1>4, <1>5, <1>6 DEF Consistent

\* Revoking no row leaves the table as it is.
LEMMA RevokeNothing ==
  ASSUME TypeOK, UNCHANGED sessions
  PROVE  RevokeWrites({})
  BY DEF TypeOK, RevokeWrites, Revoked

\* sessions.Create keeps Consistent and writes as LoginWrites says.
LEMMA LoginCreateStep ==
  ASSUME Consistent, NEW r \in Requests, LoginCreate(r)
  PROVE  /\ Consistent'
         /\ \E s \in Sids \ Stored, u \in Users : LoginWrites(s, u)
<1> DEFINE s == req[r].new
           u == req[r].user
<1>1. TypeOK /\ s \in Sids \ Stored /\ u \in Users /\ LoginWrites(s, u)
  BY DEF LoginCreate, Consistent, RequestsOK, LoginWrites
<1>2. /\ sessions' \in [Sids -> Row \cup {None}]
      /\ Stored' = Stored \cup {s}
      /\ \A x \in Stored : sessions'[x] = sessions[x]
      /\ sessions'[s].family = s
  BY <1>1, LoginTable
<1>3. req'[r] = Idle /\ \A x \in Requests \ {r} : req'[x] = req[x]
  BY <1>1 DEF TypeOK, LoginCreate, Return
<1>4. TypeOK'
  BY <1>1, <1>2, IdleRequest DEF TypeOK, LoginCreate, Return
<1>5. \A x \in Requests \ {r} : req[x].new # s
  BY <1>1, NoneNotRow DEF Consistent, IdsDistinct
<1>6. RequestsOK'
  BY <1>2, <1>3, <1>5, IdleRequest DEF Consistent, RequestsOK, At
<1>7. IdsDistinct'
  BY <1>3, IdleRequest DEF Consistent, IdsDistinct
<1>8. FamiliesStored'
  BY <1>2 DEF Consistent, FamiliesStored, FamilyOf, LoginCreate
<1>9. QED
  BY <1>1, <1>4, <1>6, <1>7, <1>8 DEF Consistent

\* RotateToken keeps Consistent, and writes only if its UPDATE matches.
LEMMA RotateTokenStep ==
  ASSUME Consistent, NEW r \in Requests, RotateToken(r)
  PROVE  /\ Consistent'
         /\ \/ UNCHANGED sessions
            \/ \E old \in Stored, new \in Sids \ Stored :
                 RotateMatches(old) /\ RotateWrites(old, new)
<1>0. TypeOK
  BY DEF Consistent
<1>1. CASE ~RotateMatches(req[r].old)
  <2>1. UNCHANGED <<sessions, delivered, ended>> /\ Return(r)
    BY <1>1 DEF RotateToken
  <2>2. req' = [req EXCEPT ![r] = Idle]
    BY <2>1 DEF Return
  <2>3. Consistent'
    BY <2>1, <2>2, IdleRequest, ArriveConsistent
  <2>4. QED
    BY <2>1, <2>3
<1>2. CASE RotateMatches(req[r].old)
  <2> DEFINE old == req[r].old
             new == req[r].new
  <2>1. old \in Stored /\ new \in Sids \ Stored /\ RotateWrites(old, new)
    BY <1>2 DEF RotateToken, Consistent, RequestsOK, RotateWrites
  <2>2. /\ sessions' \in [Sids -> Row \cup {None}]
        /\ Stored' = Stored \cup {new}
        /\ \A x \in Stored : sessions'[x].family = sessions[x].family
        /\ sessions'[new].family = sessions[old].family
    BY <1>0, <2>1, RotateTable
  <2>3. /\ req' = [req EXCEPT ![r].pc = "claims"]
        /\ UNCHANGED <<delivered, ended>>
    BY <1>2 DEF RotateToken
  <2>4. /\ req'[r].pc = "claims" /\ req'[r].new = new /\ req'[r].snap = req[r].snap
        /\ req'[r] \in Request
        /\ \A x \in Requests \ {r} : req'[x] = req[x]
    BY <1>0, <2>3 DEF TypeOK, Request, PCs
  <2>5. TypeOK'
    BY <1>0, <2>1, <2>2, <2>3, <2>4 DEF TypeOK, Stored
  <2>6. \A x \in Requests \ {r} : req[x].new # new
    BY <2>1, NoneNotRow DEF Consistent, IdsDistinct
  <2>7. RequestsOK'
    BY <2>2, <2>4, <2>6 DEF Consistent, RequestsOK, At
  <2>8. IdsDistinct'
    BY <2>4 DEF Consistent, IdsDistinct
  <2>9. FamiliesStored'
    BY <2>1, <2>2, <2>3 DEF Consistent, FamiliesStored, FamilyOf
  <2>10. QED
    BY <1>2, <2>1, <2>5, <2>7, <2>8, <2>9 DEF Consistent
<1>3. QED
  BY <1>1, <1>2

\* Issuing the access token keeps Consistent and does not write.
LEMMA RotateIssueStep ==
  ASSUME Consistent, NEW r \in Requests, RotateIssue(r)
  PROVE  Consistent' /\ UNCHANGED sessions
<1>1. req' = [req EXCEPT ![r] = Idle]
  BY DEF RotateIssue, Return
<1>2. /\ UNCHANGED <<sessions, ended>>
      /\ delivered' \in {delivered, delivered \cup {req[r].new}}
      /\ req[r].new \in Stored
  BY DEF RotateIssue, Consistent, RequestsOK
<1>3. Stored' = Stored /\ Stored \subseteq Sids
  BY <1>2 DEF Stored
<1>4. req'[r] = Idle /\ \A x \in Requests \ {r} : req'[x] = req[x]
  BY <1>1 DEF Consistent, TypeOK
<1>5. TypeOK'
  BY <1>1, <1>2, <1>3, IdleRequest DEF Consistent, TypeOK
<1>6. RequestsOK'
  BY <1>3, <1>4, IdleRequest DEF Consistent, RequestsOK, At
<1>7. IdsDistinct'
  BY <1>4, IdleRequest DEF Consistent, IdsDistinct
<1>8. FamiliesStored'
  BY <1>2, <1>3 DEF Consistent, FamiliesStored, FamilyOf
<1>9. QED
  BY <1>2, <1>5, <1>6, <1>7, <1>8 DEF Consistent

\* What a request that is about to run a statement over many rows may do.
LEMMA RevokingStep ==
  ASSUME Consistent, NEW r \in Requests,
         \/ RevokeFamily(r) \/ RevokeAllForUser(r)
         \/ PgRevokeFamilyScan(r) \/ PgRevokeFamilyCommit(r)
         \/ PgRevokeAllScan(r) \/ PgRevokeAllCommit(r)
         \/ Revoke(r) \/ StoreError(r)
  PROVE  Consistent' /\ \E S \in SUBSET Stored : RevokeWrites(S)
<1>0. TypeOK /\ Live \subseteq Stored /\ \A s \in Stored : FamilyOf(s) \in Sids
  BY DEF Consistent, FamiliesStored, Live, Stored
<1> DEFINE old == req[r].old
<1>1. CASE RevokeFamily(r)
  <2>1. old \in Stored
    BY <1>1 DEF RevokeFamily, Consistent, RequestsOK, At
  <2>2. RowsOfFamily(old) \in SUBSET Stored /\ RevokeWrites(RowsOfFamily(old))
    BY <1>0, <1>1 DEF RevokeFamily, RevokeWrites, RowsOfFamily
  <2>3. /\ ended' \in [Operations -> SUBSET Sids]
        /\ UNCHANGED delivered
        /\ req' = [req EXCEPT ![r] = Idle]
    BY <1>0, <1>1, <2>1 DEF RevokeFamily, ReportReuse, TypeOK, Return, Operations, Stored
  <2>4. Consistent'
    BY <2>2, <2>3, IdleRequest, RevokingConsistent
  <2>5. QED
    BY <2>2, <2>4
<1>2. CASE RevokeAllForUser(r)
  <2> DEFINE rows == RowsOfUser(req[r].user)
  <2>1. rows \in SUBSET Stored /\ RevokeWrites(rows)
    BY <1>0, <1>2 DEF RevokeAllForUser, RevokeWrites, RowsOfUser
  <2>2. {FamilyOf(s) : s \in rows} \subseteq Sids
    BY <1>0, <2>1
  <2>3. /\ ended' \in [Operations -> SUBSET Sids]
        /\ UNCHANGED delivered
        /\ req' = [req EXCEPT ![r] = Idle]
    BY <1>0, <1>2, <2>2 DEF RevokeAllForUser, ReportLogoutAll, TypeOK, Return, Operations
  <2>4. Consistent'
    BY <2>1, <2>3, IdleRequest, RevokingConsistent
  <2>5. QED
    BY <2>1, <2>4
<1>3. CASE PgRevokeFamilyScan(r)
  <2> DEFINE q == [req[r] EXCEPT !.pc = "reuse_update", !.snap = RowsOfFamily(old)]
  <2>1. old \in Stored /\ RowsOfFamily(old) \subseteq Stored
    BY <1>0, <1>3 DEF PgRevokeFamilyScan, Consistent, RequestsOK, RowsOfFamily, At
  <2>2. RowsOfFamily(old) \in SUBSET Sids
    BY <2>1 DEF Stored
  <2>3. req[r] \in Request
    BY <1>0 DEF TypeOK
  <2>4. /\ q \in Request /\ q.pc = "reuse_update" /\ q.new = req[r].new
        /\ q.old = old /\ q.snap = RowsOfFamily(old)
    BY <2>2, <2>3 DEF Request, PCs
  <2>5. req' = [req EXCEPT ![r] = q]
    BY <1>0, <1>3 DEF PgRevokeFamilyScan, TypeOK
  <2> HIDE DEF q
  <2>6. UNCHANGED <<sessions, delivered, ended>>
    BY <1>3 DEF PgRevokeFamilyScan
  <2>7. Consistent'
    BY <1>0, <2>1, <2>4, <2>5, <2>6, ScanConsistent
  <2>8. QED
    BY <1>0, <2>6, <2>7, RevokeNothing
<1>4. CASE PgRevokeAllScan(r)
  <2> DEFINE q == [req[r] EXCEPT !.pc = "logout_all_update",
                                 !.snap = RowsOfUser(req[r].user)]
  <2>1. RowsOfUser(req[r].user) \subseteq Stored
    BY <1>0 DEF RowsOfUser
  <2>2. RowsOfUser(req[r].user) \in SUBSET Sids
    BY <2>1 DEF Stored
  <2>3. req[r] \in Request
    BY <1>0 DEF TypeOK
  <2>4. /\ q \in Request /\ q.pc = "logout_all_update" /\ q.new = req[r].new
        /\ q.snap = RowsOfUser(req[r].user)
    BY <2>2, <2>3 DEF Request, PCs
  <2>5. req' = [req EXCEPT ![r] = q]
    BY <1>0, <1>4 DEF PgRevokeAllScan, TypeOK
  <2> HIDE DEF q
  <2>6. UNCHANGED <<sessions, delivered, ended>>
    BY <1>4 DEF PgRevokeAllScan
  <2>7. Consistent'
    BY <1>0, <2>1, <2>4, <2>5, <2>6, ScanConsistent
  <2>8. QED
    BY <1>0, <2>6, <2>7, RevokeNothing
<1>5. CASE PgRevokeFamilyCommit(r)
  <2>1. old \in Stored /\ req[r].snap \in SUBSET Stored
    BY <1>5 DEF PgRevokeFamilyCommit, Consistent, RequestsOK, At
  <2>2. RevokeWrites(req[r].snap)
    BY <1>5 DEF PgRevokeFamilyCommit, RevokeWrites
  <2>3. /\ ended' \in [Operations -> SUBSET Sids]
        /\ UNCHANGED delivered
        /\ req' = [req EXCEPT ![r] = Idle]
    BY <1>0, <1>5, <2>1
    DEF PgRevokeFamilyCommit, ReportReuse, TypeOK, Return, Operations, Stored
  <2>4. Consistent'
    BY <2>1, <2>2, <2>3, IdleRequest, RevokingConsistent
  <2>5. QED
    BY <2>1, <2>2, <2>4
<1>6. CASE PgRevokeAllCommit(r)
  <2>1. req[r].snap \in SUBSET Stored
    BY <1>6 DEF PgRevokeAllCommit, Consistent, RequestsOK
  <2>2. RevokeWrites(req[r].snap) /\ {FamilyOf(s) : s \in req[r].snap} \subseteq Sids
    BY <1>0, <1>6, <2>1 DEF PgRevokeAllCommit, RevokeWrites
  <2>3. /\ ended' \in [Operations -> SUBSET Sids]
        /\ UNCHANGED delivered
        /\ req' = [req EXCEPT ![r] = Idle]
    BY <1>0, <1>6, <2>2
    DEF PgRevokeAllCommit, ReportLogoutAll, TypeOK, Return, Operations
  <2>4. Consistent'
    BY <2>1, <2>2, <2>3, IdleRequest, RevokingConsistent
  <2>5. QED
    BY <2>1, <2>2, <2>4
<1>7. CASE Revoke(r)
  <2>1. old \in Stored
    BY <1>7 DEF Revoke, Consistent, RequestsOK, At
  <2>2. /\ ended' \in [Operations -> SUBSET Sids]
        /\ UNCHANGED delivered
        /\ req' = [req EXCEPT ![r] = Idle]
    BY <1>0, <1>7, <2>1 DEF Revoke, TypeOK, Return, Operations, Stored
  <2>3. PICK S \in SUBSET Stored : RevokeWrites(S)
    <3>1. CASE RevokeMatches(old)
      BY <1>7, <2>1, <3>1 DEF Revoke, RevokeWrites
    <3>2. CASE ~RevokeMatches(old)
      BY <1>0, <1>7, <3>2, RevokeNothing DEF Revoke
    <3>3. QED
      BY <3>1, <3>2
  <2>4. Consistent'
    BY <2>2, <2>3, IdleRequest, RevokingConsistent
  <2>5. QED
    BY <2>3, <2>4
<1>8. CASE StoreError(r)
  <2>1. UNCHANGED <<sessions, delivered, ended>>
        /\ req' = [req EXCEPT ![r] = Idle]
    BY <1>8 DEF StoreError, Return
  <2>2. Consistent'
    BY <2>1, IdleRequest, ArriveConsistent
  <2>3. QED
    BY <1>0, <2>1, <2>2, RevokeNothing
<1>9. QED
  BY <1>1, <1>2, <1>3, <1>4, <1>5, <1>6, <1>7, <1>8

\* Every step keeps Consistent and writes to the table in one of four ways.
LEMMA NextStep ==
  ASSUME Consistent, Next
  PROVE  /\ Consistent'
         /\ \/ UNCHANGED sessions
            \/ \E s \in Sids \ Stored, u \in Users : LoginWrites(s, u)
            \/ \E old \in Stored, new \in Sids \ Stored :
                 RotateMatches(old) /\ RotateWrites(old, new)
            \/ \E S \in SUBSET Stored : RevokeWrites(S)
<1>1. PICK r \in Requests : Arrive(r) \/ Continue(r) \/ StoreError(r)
  BY DEF Next
<1>2. CASE Arrive(r)
  BY <1>2, ArriveStep
<1>3. CASE LoginCreate(r)
  BY <1>3, LoginCreateStep
<1>4. CASE RotateToken(r)
  BY <1>4, RotateTokenStep
<1>5. CASE RotateIssue(r)
  BY <1>5, RotateIssueStep
<1>6. CASE \/ RevokeFamily(r) \/ RevokeAllForUser(r)
           \/ PgRevokeFamilyScan(r) \/ PgRevokeFamilyCommit(r)
           \/ PgRevokeAllScan(r) \/ PgRevokeAllCommit(r)
           \/ Revoke(r) \/ StoreError(r)
  BY <1>6, RevokingStep
<1>7. QED
  BY <1>1, <1>2, <1>3, <1>4, <1>5, <1>6 DEF Continue

\* The empty store is consistent.
LEMMA InitConsistent == Init => Consistent
<1> SUFFICES ASSUME Init PROVE Consistent
  OBVIOUS
<1>1. TypeOK
  BY IdleRequest DEF Init, TypeOK
<1>2. Stored = {} /\ \A r \in Requests : req[r] = Idle
  BY DEF Init, Stored
<1>3. RequestsOK /\ IdsDistinct
  BY <1>2, IdleRequest DEF RequestsOK, IdsDistinct, At
<1>4. FamiliesStored
  BY <1>2 DEF FamiliesStored, Init
<1>5. QED
  BY <1>1, <1>3, <1>4 DEF Consistent

\* Consistent depends on the variables only.
LEMMA ConsistentStutter == Consistent /\ UNCHANGED vars => Consistent'
  BY DEF Consistent, TypeOK, RequestsOK, IdsDistinct, FamiliesStored, vars,
         At, Stored, FamilyOf

\* The inductive invariant, for every backend.
THEOREM AlwaysConsistent == Spec => []Consistent
<1>1. Consistent /\ [Next]_vars => Consistent'
  BY NextStep, ConsistentStutter
<1>2. QED
  BY <1>1, InitConsistent, PTL DEF Spec

\* Every row, request and history variable keeps its type, for all backends.
THEOREM TypeCorrect == Spec => []TypeOK
  BY AlwaysConsistent, PTL DEF Consistent

-----------------------------------------------------------------------------
(* One usable token per login *)

\* On the SQL backends no step gives a family a second live row.
LEMMA OneLiveStep ==
  ASSUME Backend # "memory", Consistent, OneLivePerFamily, [Next]_vars
  PROVE  OneLivePerFamily'
<1>0. TypeOK /\ Live \subseteq Stored /\ \A s \in Stored : FamilyOf(s) \in Stored
  BY DEF Consistent, FamiliesStored, Live
<1>1. CASE UNCHANGED sessions
  BY <1>1 DEF OneLivePerFamily, Live, Stored, FamilyOf
<1>2. ASSUME NEW s \in Sids \ Stored, NEW u \in Users, LoginWrites(s, u)
      PROVE  OneLivePerFamily'
  <2>1. /\ Live' = Live \cup {s}
        /\ \A x \in Stored : sessions'[x] = sessions[x]
        /\ sessions'[s].family = s
    BY <1>0, <1>2, LoginTable
  <2>2. \A x \in Live : sessions[x].family # s
    BY <1>0 DEF FamilyOf
  <2>3. QED
    BY <1>0, <2>1, <2>2 DEF OneLivePerFamily, FamilyOf
<1>3. ASSUME NEW old \in Stored, NEW new \in Sids \ Stored,
             RotateMatches(old), RotateWrites(old, new)
      PROVE  OneLivePerFamily'
  <2>1. old \in Live
    BY <1>3 DEF RotateMatches
  <2>2. /\ Live' = (Live \ {old}) \cup {new}
        /\ \A x \in Stored : sessions'[x].family = sessions[x].family
        /\ sessions'[new].family = sessions[old].family
    BY <1>0, <1>3, RotateTable
  <2>3. QED
    BY <1>0, <2>1, <2>2 DEF OneLivePerFamily, FamilyOf
<1>4. ASSUME NEW S \in SUBSET Stored, RevokeWrites(S)
      PROVE  OneLivePerFamily'
  <2>1. /\ Live' = Live \ S
        /\ \A x \in Stored : sessions'[x].family = sessions[x].family
    BY <1>0, <1>4, RevokeTable
  <2>2. QED
    BY <1>0, <2>1 DEF OneLivePerFamily, FamilyOf
<1>5. CASE UNCHANGED vars
  BY <1>1, <1>5 DEF vars
<1>6. QED
  BY <1>1, <1>2, <1>3, <1>4, <1>5, NextStep

\* On the SQL backends a login never has two usable refresh tokens, whatever
\* requests run concurrently.
THEOREM SqlOneLivePerFamily ==
  ASSUME Backend # "memory" PROVE Spec => []OneLivePerFamily
<1>1. Init => OneLivePerFamily
  BY DEF Init, OneLivePerFamily, Live, Stored
<1>2. Consistent /\ OneLivePerFamily /\ [Next]_vars => OneLivePerFamily'
  BY OneLiveStep
<1>3. QED
  BY <1>1, <1>2, AlwaysConsistent, PTL DEF Spec

-----------------------------------------------------------------------------
(* No login leaves a session behind that nobody holds *)

\* The row that a login created, live or not, is one whose token was returned.
RootsDelivered == \A s \in Stored : FamilyOf(s) = s => s \in delivered

\* Only a login stores a row that names its own family, and it returns the token
\* in the same step; a rotation's row is in the family of an older one.
LEMMA RootsStep ==
  ASSUME Consistent, RootsDelivered, Next
  PROVE  RootsDelivered'
<1>0. TypeOK /\ \A s \in Stored : FamilyOf(s) \in Stored
  BY DEF Consistent, FamiliesStored
<1>1. PICK r \in Requests : Arrive(r) \/ Continue(r) \/ StoreError(r)
  BY DEF Next
<1>2. delivered \subseteq delivered'
  BY <1>1
  DEF Arrive, LoginIssue, RotateLookup, OwnedLookup, LogoutAll, StoreError, Continue,
      LoginCreate, RotateToken, RotateIssue, RevokeFamily, RevokeAllForUser,
      PgRevokeFamilyScan, PgRevokeFamilyCommit, PgRevokeAllScan, PgRevokeAllCommit, Revoke
<1>3. CASE UNCHANGED sessions
  BY <1>2, <1>3 DEF RootsDelivered, Stored, FamilyOf
<1>4. CASE LoginCreate(r)
  <2> DEFINE s == req[r].new
             u == req[r].user
  <2>1. s \in Sids \ Stored /\ u \in Users /\ LoginWrites(s, u) /\ s \in delivered'
    BY <1>4 DEF LoginCreate, Consistent, RequestsOK, LoginWrites
  <2>2. Stored' = Stored \cup {s} /\ \A x \in Stored : sessions'[x] = sessions[x]
    BY <1>0, <2>1, LoginTable
  <2>3. QED
    BY <1>2, <2>1, <2>2 DEF RootsDelivered, FamilyOf
<1>5. ASSUME NEW old \in Stored, NEW new \in Sids \ Stored, RotateWrites(old, new)
      PROVE  RootsDelivered'
  <2>1. /\ Stored' = Stored \cup {new}
        /\ \A x \in Stored : sessions'[x].family = sessions[x].family
        /\ sessions'[new].family = sessions[old].family
    BY <1>0, <1>5, RotateTable
  <2>2. sessions'[new].family # new
    BY <1>0, <2>1 DEF FamilyOf
  <2>3. QED
    BY <1>2, <2>1, <2>2 DEF RootsDelivered, FamilyOf
<1>6. ASSUME NEW S \in SUBSET Stored, RevokeWrites(S)
      PROVE  RootsDelivered'
  <2>1. Stored' = Stored /\ \A x \in Stored : sessions'[x].family = sessions[x].family
    BY <1>0, <1>6, RevokeTable
  <2>2. QED
    BY <1>2, <2>1 DEF RootsDelivered, FamilyOf
<1>7. CASE Arrive(r) \/ RotateIssue(r)
  BY <1>3, <1>7, ArriveStep, RotateIssueStep
<1>8. CASE RotateToken(r)
  BY <1>3, <1>5, <1>8, RotateTokenStep
<1>9. CASE \/ RevokeFamily(r) \/ RevokeAllForUser(r)
           \/ PgRevokeFamilyScan(r) \/ PgRevokeFamilyCommit(r)
           \/ PgRevokeAllScan(r) \/ PgRevokeAllCommit(r)
           \/ Revoke(r) \/ StoreError(r)
  BY <1>6, <1>9, RevokingStep
<1>10. QED
  BY <1>1, <1>4, <1>7, <1>8, <1>9 DEF Continue

\* On every backend and whatever fails, a login leaves no usable session whose
\* token nobody was given (finishLogin issues first and creates last).
THEOREM AlwaysLoginLeavesNoOrphan == Spec => []LoginLeavesNoOrphan
<1>1. Init => RootsDelivered
  BY DEF Init, RootsDelivered, Stored
<1>2. Consistent /\ RootsDelivered /\ [Next]_vars => RootsDelivered'
  <2>1. RootsDelivered /\ UNCHANGED vars => RootsDelivered'
    BY DEF RootsDelivered, Stored, FamilyOf, vars
  <2>2. QED
    BY <2>1, RootsStep
<1>3. RootsDelivered => LoginLeavesNoOrphan
  BY DEF RootsDelivered, LoginLeavesNoOrphan, Live
<1>4. QED
  BY <1>1, <1>2, <1>3, AlwaysConsistent, PTL DEF Spec

-----------------------------------------------------------------------------
(* What a caller was told is ended stays ended *)

\* Operation o ended families that exist and have no live session.
EndedOK(o) == ended[o] \subseteq Stored /\ StaysDead(o)

\* The families a step reports as ended have no live session after it.
ReportsOnlyDead(o) ==
  \E F \in SUBSET Stored :
    /\ ended'[o] = ended[o] \cup F
    /\ \A s \in Live' : sessions'[s].family \notin F

\* No step brings a dead family back: a login starts a new one, and a rotation
\* needs a live row of the family.
LEMMA EndedStep ==
  ASSUME Backend # "memory", Consistent, Next, NEW o \in Operations,
         EndedOK(o), ReportsOnlyDead(o)
  PROVE  EndedOK(o)'
<1>0. TypeOK /\ Live \subseteq Stored
  BY DEF Consistent, Live
<1>1. PICK F \in SUBSET Stored :
        /\ ended'[o] = ended[o] \cup F
        /\ \A s \in Live' : sessions'[s].family \notin F
  BY DEF ReportsOnlyDead
<1> DEFINE Keeps == /\ Stored \subseteq Stored'
                    /\ \A s \in Live' : sessions'[s].family \notin ended[o]
<1>2. SUFFICES Keeps
  BY <1>1 DEF EndedOK, StaysDead, FamilyOf
<1>3. CASE UNCHANGED sessions
  BY <1>3 DEF EndedOK, StaysDead, Live, Stored, FamilyOf
<1>4. ASSUME NEW s \in Sids \ Stored, NEW u \in Users, LoginWrites(s, u)
      PROVE  Keeps
  <2>1. /\ Stored' = Stored \cup {s}
        /\ Live' = Live \cup {s}
        /\ \A x \in Stored : sessions'[x] = sessions[x]
        /\ sessions'[s].family = s
    BY <1>0, <1>4, LoginTable
  <2>2. QED
    BY <1>0, <2>1 DEF EndedOK, StaysDead, FamilyOf
<1>5. ASSUME NEW old \in Stored, NEW new \in Sids \ Stored,
             RotateMatches(old), RotateWrites(old, new)
      PROVE  Keeps
  <2>1. old \in Live
    BY <1>5 DEF RotateMatches
  <2>2. /\ Stored' = Stored \cup {new}
        /\ Live' = (Live \ {old}) \cup {new}
        /\ \A x \in Stored : sessions'[x].family = sessions[x].family
        /\ sessions'[new].family = sessions[old].family
    BY <1>0, <1>5, RotateTable
  <2>3. QED
    BY <1>0, <2>1, <2>2 DEF EndedOK, StaysDead, FamilyOf
<1>6. ASSUME NEW S \in SUBSET Stored, RevokeWrites(S)
      PROVE  Keeps
  <2>1. /\ Stored' = Stored
        /\ Live' = Live \ S
        /\ \A x \in Stored : sessions'[x].family = sessions[x].family
    BY <1>0, <1>6, RevokeTable
  <2>2. QED
    BY <1>0, <2>1 DEF EndedOK, StaysDead, FamilyOf
<1>7. QED
  BY <1>3, <1>4, <1>5, <1>6, NextStep

\* A step that reports nothing for o.
LEMMA ReportsNothing ==
  ASSUME NEW o \in Operations, ended'[o] = ended[o]
  PROVE  ReportsOnlyDead(o)
<1>1. ended'[o] = ended[o] \cup {} /\ {} \in SUBSET Stored
  OBVIOUS
<1>2. QED
  BY <1>1 DEF ReportsOnlyDead

\* Logout: the one live session of the family is the one it revoked.
LEMMA LogoutReports ==
  ASSUME Backend # "memory", Consistent, OneLivePerFamily, Next
  PROVE  ReportsOnlyDead("logout")
<1>0. /\ TypeOK /\ Live \subseteq Stored /\ "logout" \in Operations
      /\ ended \in [Operations -> SUBSET Sids]
  BY DEF Consistent, TypeOK, Live, Operations
<1>1. PICK r \in Requests : Arrive(r) \/ Continue(r) \/ StoreError(r)
  BY DEF Next
<1>2. CASE Revoke(r) /\ RevokeMatches(req[r].old)
  <2> DEFINE s == req[r].old
  <2>1. s \in Live /\ s \in Stored
    BY <1>0, <1>2 DEF RevokeMatches
  <2>2. RevokeWrites({s}) /\ {s} \in SUBSET Stored
    BY <1>2, <2>1 DEF Revoke, RevokeWrites
  <2>3. /\ Live' = Live \ {s}
        /\ \A x \in Stored : sessions'[x].family = sessions[x].family
    BY <1>0, <2>2, RevokeTable
  <2>4. \A x \in Live' : sessions'[x].family \notin {FamilyOf(s)}
    BY <1>0, <2>1, <2>3 DEF OneLivePerFamily, FamilyOf
  <2>5. ended'["logout"] = ended["logout"] \cup {FamilyOf(s)}
    BY <1>0, <1>2 DEF Revoke
  <2>6. {FamilyOf(s)} \in SUBSET Stored
    BY <2>1 DEF Consistent, FamiliesStored
  <2>7. QED
    BY <2>4, <2>5, <2>6 DEF ReportsOnlyDead
<1>3. CASE ~(Revoke(r) /\ RevokeMatches(req[r].old))
  <2>1. ended'["logout"] = ended["logout"]
    BY <1>0, <1>1, <1>3
    DEF Arrive, LoginIssue, RotateLookup, OwnedLookup, LogoutAll, Continue,
        LoginCreate, RotateToken, RotateIssue, RevokeFamily, RevokeAllForUser,
        PgRevokeFamilyScan, PgRevokeFamilyCommit, PgRevokeAllScan,
        PgRevokeAllCommit, Revoke, StoreError, ReportReuse, ReportLogoutAll
  <2>2. QED
    BY <1>0, <2>1, ReportsNothing
<1>4. QED
  BY <1>2, <1>3

\* SQLite, LogoutAll: each family had one live session, and it was revoked.
LEMMA LogoutAllReports ==
  ASSUME Backend = "sqlite", Consistent, OneLivePerFamily, Next
  PROVE  ReportsOnlyDead("logout_all")
<1>0. /\ TypeOK /\ Live \subseteq Stored /\ "logout_all" \in Operations
      /\ ended \in [Operations -> SUBSET Sids]
  BY DEF Consistent, TypeOK, Live, Operations
<1>1. PICK r \in Requests : Arrive(r) \/ Continue(r) \/ StoreError(r)
  BY DEF Next
<1>2. CASE RevokeAllForUser(r)
  <2> DEFINE rows == RowsOfUser(req[r].user)
             F == {FamilyOf(s) : s \in rows}
  <2>1. rows \subseteq Live /\ rows \in SUBSET Stored /\ RevokeWrites(rows)
    BY <1>0, <1>2 DEF RevokeAllForUser, RevokeWrites, RowsOfUser
  <2>2. /\ Live' = Live \ rows
        /\ \A x \in Stored : sessions'[x].family = sessions[x].family
    BY <1>0, <2>1, RevokeTable
  <2>3. \A x \in Live' : sessions'[x].family \notin F
    BY <1>0, <2>1, <2>2 DEF OneLivePerFamily, FamilyOf
  <2>4. ended'["logout_all"] = ended["logout_all"] \cup F
    BY <1>0, <1>2 DEF RevokeAllForUser, ReportLogoutAll, RowsOfUser
  <2>5. F \in SUBSET Stored
    BY <2>1 DEF Consistent, FamiliesStored
  <2>6. QED
    BY <2>3, <2>4, <2>5 DEF ReportsOnlyDead
<1>3. CASE PgRevokeAllCommit(r)
  BY <1>3 DEF PgRevokeAllCommit
<1>4. CASE ~RevokeAllForUser(r) /\ ~PgRevokeAllCommit(r)
  <2>1. ended'["logout_all"] = ended["logout_all"]
    BY <1>0, <1>1, <1>4
    DEF Arrive, LoginIssue, RotateLookup, OwnedLookup, LogoutAll, Continue,
        LoginCreate, RotateToken, RotateIssue, RevokeFamily,
        PgRevokeFamilyScan, PgRevokeFamilyCommit, PgRevokeAllScan,
        Revoke, StoreError, ReportReuse
  <2>2. QED
    BY <1>0, <2>1, ReportsNothing
<1>5. QED
  BY <1>2, <1>3, <1>4

\* SQLite, reuse: the statement revoked every live session of the family.
LEMMA ReuseReports ==
  ASSUME Backend = "sqlite", Consistent, Next
  PROVE  ReportsOnlyDead("reuse")
<1>0. /\ TypeOK /\ Live \subseteq Stored /\ "reuse" \in Operations
      /\ ended \in [Operations -> SUBSET Sids]
  BY DEF Consistent, TypeOK, Live, Operations
<1>1. PICK r \in Requests : Arrive(r) \/ Continue(r) \/ StoreError(r)
  BY DEF Next
<1>2. CASE RevokeFamily(r)
  <2> DEFINE old == req[r].old
             rows == RowsOfFamily(old)
  <2>1. old \in Stored /\ FamilyOf(old) \in Stored
    BY <1>2 DEF RevokeFamily, Consistent, RequestsOK, FamiliesStored, At
  <2>2. rows \in SUBSET Stored /\ RevokeWrites(rows)
    BY <1>0, <1>2 DEF RevokeFamily, RevokeWrites, RowsOfFamily
  <2>3. /\ Live' = Live \ rows
        /\ \A x \in Stored : sessions'[x].family = sessions[x].family
    BY <1>0, <2>2, RevokeTable
  <2>4. \A x \in Live' : sessions'[x].family \notin {FamilyOf(old)}
    BY <1>0, <2>3 DEF RowsOfFamily, FamilyOf
  <2>5. ended'["reuse"] = ended["reuse"] \cup {FamilyOf(old)}
    BY <1>0, <1>2 DEF RevokeFamily, ReportReuse
  <2>6. QED
    BY <2>1, <2>4, <2>5 DEF ReportsOnlyDead
<1>3. CASE PgRevokeFamilyCommit(r)
  BY <1>3 DEF PgRevokeFamilyCommit
<1>4. CASE ~RevokeFamily(r) /\ ~PgRevokeFamilyCommit(r)
  <2>1. ended'["reuse"] = ended["reuse"]
    BY <1>0, <1>1, <1>4
    DEF Arrive, LoginIssue, RotateLookup, OwnedLookup, LogoutAll, Continue,
        LoginCreate, RotateToken, RotateIssue, RevokeAllForUser,
        PgRevokeFamilyScan, PgRevokeAllScan, PgRevokeAllCommit,
        Revoke, StoreError, ReportLogoutAll
  <2>2. QED
    BY <1>0, <2>1, ReportsNothing
<1>5. QED
  BY <1>2, <1>3, <1>4

\* Nothing was reported as ended at the start.
LEMMA InitEnded == ASSUME Init, NEW o \in Operations PROVE EndedOK(o)
  BY DEF Init, EndedOK, StaysDead, Live, Stored

\* EndedOK depends on the variables only.
LEMMA EndedStutter ==
  ASSUME NEW o \in Operations, EndedOK(o), UNCHANGED vars
  PROVE  EndedOK(o)'
  BY DEF EndedOK, StaysDead, Live, Stored, FamilyOf, vars

\* On both SQL backends a successful Logout or session.Revoke ends the login
\* for good, even when its token was being refreshed at that moment.
THEOREM SqlLogoutEndsFamily ==
  ASSUME Backend # "memory" PROVE Spec => []LogoutEndsFamily
<1>1. Init => EndedOK("logout")
  BY InitEnded DEF Operations
<1>2. Consistent /\ OneLivePerFamily /\ EndedOK("logout") /\ [Next]_vars
        => EndedOK("logout")'
  BY EndedStep, LogoutReports, EndedStutter DEF Operations
<1>3. EndedOK("logout") => LogoutEndsFamily
  BY DEF EndedOK, LogoutEndsFamily
<1>4. QED
  BY <1>1, <1>2, <1>3, AlwaysConsistent, SqlOneLivePerFamily, PTL DEF Spec

\* On SQLite everything a caller was told is ended stays ended: after a logout,
\* a logout everywhere and a detected reuse no refresh in flight revives it.
THEOREM SqliteEndedFamiliesStayDead ==
  ASSUME Backend = "sqlite" PROVE Spec => []EndedFamiliesStayDead
<1> DEFINE AllOK == \A o \in Operations : EndedOK(o)
<1>1. Init => AllOK
  BY InitEnded
<1>2. Consistent /\ OneLivePerFamily /\ AllOK /\ [Next]_vars => AllOK'
  <2> SUFFICES ASSUME Consistent, OneLivePerFamily, AllOK, [Next]_vars,
                      NEW o \in Operations
               PROVE  EndedOK(o)'
    OBVIOUS
  <2>1. EndedOK(o)
    OBVIOUS
  <2>2. CASE UNCHANGED vars
    BY <2>1, <2>2, EndedStutter
  <2>3. CASE Next
    <3>1. ReportsOnlyDead("logout") /\ ReportsOnlyDead("logout_all")
          /\ ReportsOnlyDead("reuse")
      BY <2>3, LogoutReports, LogoutAllReports, ReuseReports
    <3>2. ReportsOnlyDead(o)
      BY <3>1 DEF Operations
    <3>3. QED
      BY <2>1, <2>3, <3>2, EndedStep
  <2>4. QED
    BY <2>2, <2>3
<1>3. AllOK => EndedFamiliesStayDead
  BY DEF EndedOK, EndedFamiliesStayDead
<1>4. Spec => []OneLivePerFamily
  BY SqlOneLivePerFamily
<1> HIDE DEF AllOK
<1>5. QED
  BY <1>1, <1>2, <1>3, <1>4, AlwaysConsistent, PTL DEF Spec

-----------------------------------------------------------------------------
(* Sessions implements TokenFamilies on the SQL backends *)

\* The refinement mapping, of a table t whose live rows are L.
CurrentIn(t, L) ==
  [f \in Sids |-> IF \E s \in L : t[s].family = f
                  THEN CHOOSE s \in L : t[s].family = f
                  ELSE None]

OneLiveIn(t, L) == \A s, x \in L : t[s].family = t[x].family => s = x

\* The mapped current token of a family is its one live row, if any.
LEMMA CurrentInValue ==
  ASSUME NEW t, NEW L \in SUBSET Sids, OneLiveIn(t, L), NEW f \in Sids
  PROVE  /\ \A s \in L : t[s].family = f => CurrentIn(t, L)[f] = s
         /\ (\A s \in L : t[s].family # f) => CurrentIn(t, L)[f] = None
<1>1. ASSUME NEW s \in L, t[s].family = f
      PROVE  CurrentIn(t, L)[f] = s
  <2>1. CurrentIn(t, L)[f] = CHOOSE x \in L : t[x].family = f
    BY <1>1 DEF CurrentIn
  <2> DEFINE c == CHOOSE x \in L : t[x].family = f
  <2>2. c \in L /\ t[c].family = f
    BY <1>1
  <2> HIDE DEF c
  <2>3. c = s
    BY <1>1, <2>2 DEF OneLiveIn
  <2>4. QED
    BY <2>1, <2>3 DEF c
<1>2. ASSUME \A s \in L : t[s].family # f
      PROVE  CurrentIn(t, L)[f] = None
  BY <1>2 DEF CurrentIn
<1>3. QED
  BY <1>1, <1>2

\* The empty store maps to no families.
LEMMA InitRefines == Init => Families!Init
<1> SUFFICES ASSUME Init PROVE Families!Init
  OBVIOUS
<1>1. Stored = {} /\ Live = {}
  BY DEF Init, Stored, Live
<1>2. Current = [f \in Sids |-> None]
  BY <1>1 DEF Current
<1>3. QED
  BY <1>1, <1>2 DEF Families!Init

\* On the SQL backends every step is a step of TokenFamilies or a stutter.
LEMMA StepRefines ==
  ASSUME Backend # "memory", Consistent, OneLivePerFamily, [Next]_vars
  PROVE  [Families!Next]_(Families!vars)
<1> DEFINE cur == CurrentIn(sessions, Live)
           curp == CurrentIn(sessions', Live')
<1>0. /\ TypeOK /\ Live \in SUBSET Sids /\ Live \subseteq Stored
      /\ \A s \in Stored : sessions[s].family \in Stored
      /\ Stored \subseteq Sids
  BY DEF Consistent, FamiliesStored, Live, Stored, FamilyOf
<1>1. OneLiveIn(sessions, Live)
  BY DEF OneLivePerFamily, OneLiveIn, FamilyOf
<1>2. OneLiveIn(sessions', Live') /\ Live' \in SUBSET Sids
  BY OneLiveStep DEF OneLivePerFamily, OneLiveIn, FamilyOf, Live, Stored
<1>3. Current = cur /\ Current' = curp
  BY DEF Current, CurrentIn, FamilyOf
<1>4. /\ cur = [f \in Sids |-> cur[f]]
      /\ curp = [f \in Sids |-> curp[f]]
  BY DEF CurrentIn
<1>5. \A f \in Sids :
        /\ \A s \in Live : sessions[s].family = f => cur[f] = s
        /\ (\A s \in Live : sessions[s].family # f) => cur[f] = None
        /\ \A s \in Live' : sessions'[s].family = f => curp[f] = s
        /\ (\A s \in Live' : sessions'[s].family # f) => curp[f] = None
  BY <1>0, <1>1, <1>2, CurrentInValue
<1> HIDE DEF cur, curp
<1>6. CASE UNCHANGED sessions
  BY <1>6 DEF Families!vars, Current, Live, Stored, FamilyOf
<1>7. ASSUME NEW s \in Sids \ Stored, NEW u \in Users, LoginWrites(s, u)
      PROVE  Families!Next
  <2>1. /\ Stored' = Stored \cup {s} /\ Live' = Live \cup {s}
        /\ \A x \in Stored : sessions'[x] = sessions[x]
        /\ sessions'[s].family = s
    BY <1>0, <1>7, LoginTable
  <2>2. curp[s] = s
    BY <1>5, <2>1
  <2>3. \A f \in Sids \ {s} : curp[f] = cur[f]
    BY <1>0, <1>5, <2>1
  <2>4. curp = [cur EXCEPT ![s] = s]
    BY <1>4, <2>2, <2>3
  <2>5. Families!Begin(s)
    BY <1>3, <2>1, <2>4 DEF Families!Begin
  <2>6. QED
    BY <2>5 DEF Families!Next
<1>8. ASSUME NEW old \in Stored, NEW new \in Sids \ Stored,
             RotateMatches(old), RotateWrites(old, new)
      PROVE  Families!Next
  <2> DEFINE g == sessions[old].family
  <2>1. old \in Live /\ g \in Sids
    BY <1>0, <1>8 DEF RotateMatches
  <2>2. /\ Stored' = Stored \cup {new} /\ Live' = (Live \ {old}) \cup {new}
        /\ \A x \in Stored : sessions'[x].family = sessions[x].family
        /\ sessions'[new].family = g
    BY <1>0, <1>8, RotateTable
  <2>3. cur[g] = old /\ old # None
    BY <1>0, <1>5, <2>1, NoneNotRow
  <2>4. curp[g] = new
    BY <1>5, <2>1, <2>2
  <2>5. \A f \in Sids \ {g} : curp[f] = cur[f]
    BY <1>0, <1>5, <2>1, <2>2
  <2> HIDE DEF g
  <2>6. curp = [cur EXCEPT ![g] = new]
    BY <1>4, <2>4, <2>5
  <2>7. Families!Rotate(g, new)
    BY <1>3, <2>2, <2>3, <2>6 DEF Families!Rotate
  <2>8. QED
    BY <2>1, <2>7 DEF Families!Next
<1>9. ASSUME NEW S \in SUBSET Stored, RevokeWrites(S)
      PROVE  Families!Next
  <2> DEFINE F == {f \in Sids : \E s \in S \cap Live : sessions[s].family = f}
  <2>1. /\ Stored' = Stored /\ Live' = Live \ S
        /\ \A x \in Stored : sessions'[x].family = sessions[x].family
    BY <1>0, <1>9, RevokeTable
  <2>2. \A f \in F : curp[f] = None
    BY <1>0, <1>1, <1>5, <2>1 DEF OneLiveIn
  <2>3. \A f \in Sids \ F : curp[f] = cur[f]
    BY <1>0, <1>5, <2>1
  <2>4. F \in SUBSET Sids
    OBVIOUS
  <2> HIDE DEF F
  <2>5. curp = [f \in Sids |-> IF f \in F THEN None ELSE cur[f]]
    BY <1>4, <2>2, <2>3
  <2>6. Families!End(F)
    BY <1>3, <2>1, <2>5 DEF Families!End
  <2>7. QED
    BY <2>4, <2>6 DEF Families!Next
<1>10. CASE UNCHANGED vars
  BY <1>6, <1>10 DEF vars
<1>11. QED
  BY <1>6, <1>7, <1>8, <1>9, <1>10, NextStep

\* With a SQL store the handlers implement the abstract token families: one
\* current token per login, replaced by rotation, and gone for good once the
\* family is ended.
THEOREM SqlRefinement ==
  ASSUME Backend # "memory" PROVE Spec => FamiliesSpec
<1>1. Consistent /\ OneLivePerFamily /\ [Next]_vars => [Families!Next]_(Families!vars)
  BY StepRefines
<1>2. QED
  BY <1>1, InitRefines, AlwaysConsistent, SqlOneLivePerFamily, PTL
  DEF Spec, FamiliesSpec, Families!Spec

=============================================================================
