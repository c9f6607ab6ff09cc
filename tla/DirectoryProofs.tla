--------------------------- MODULE DirectoryProofs ---------------------------
(***************************************************************************)
(* Proofs about module Directory, for every number of users, addresses,    *)
(* external identities, links and requests, and every lifetime of a link.  *)
(*                                                                         *)
(* Inv says of the requests in flight what they hold: a signup an address  *)
(* and an id, a redemption a stored token, whose user is an account, and a *)
(* request that sends a link a token id that nobody else has.  How often a *)
(* link is redeemed is found by counting the requests that hold it         *)
(* together with the redemptions (RedeemInv).                              *)
(***************************************************************************)
EXTENDS Directory, FiniteSetTheorems, TLAPS

\* The type of the shared state; unmarked is not bounded here.
TypeOK ==
  /\ I!TypeOK
  /\ tokens \in [Tids -> L!Token \cup {None}]
  /\ mailed \subseteq {t \in Tids : tokens[t] # None}
  /\ now \in Nat
  /\ linking \in [Requests -> L!Request]
  /\ redeemed \in [Tids -> Nat]
  /\ unmarked \in [Tids -> Nat]

\* Where a request is about to insert an account, or an identity.
Creating == {"signup_create", "oauth_create"}
Adopting == {"oauth_link", "link"}

\* What a signup, an OAuth login or a link of an identity holds.
JoiningHolds ==
  \A r \in Requests :
    /\ joining[r].pc \in {"signup_create", "oauth_email", "oauth_create"}
         => joining[r].email \in Emails
    /\ joining[r].pc \in {"signup_create", "oauth_create", "oauth_link", "link"}
         => joining[r].user \in Uids
    /\ joining[r].pc \in {"oauth_email", "oauth_create", "oauth_link", "link"}
         => joining[r].external \in Externals

Sending == {"magic_create", "change_create"}
Redeeming == {"magic_used", "magic_login", "change_email", "change_used"}

\* What a request that sends or redeems a link holds.
LinkingHolds ==
  \A r \in Requests :
    /\ linking[r].pc \in Sending =>
         /\ linking[r].user \in I!Accounts /\ linking[r].to \in Emails
         /\ linking[r].tid \in Tids /\ tokens[linking[r].tid] = None
         /\ \A q \in Requests \ {r} : linking[q].tid # linking[r].tid
    /\ linking[r].pc \in Redeeming =>
         linking[r].tid \in Tids /\ tokens[linking[r].tid] # None

\* A link was sent to an account, and accounts are not removed here.
TokensHold == \A t \in Tids : tokens[t] # None => tokens[t].user \in I!Accounts

Inv == TypeOK /\ JoiningHolds /\ LinkingHolds /\ TokensHold

-----------------------------------------------------------------------------
(* What the two halves of the state leave alone *)

\* A finished request of either kind is a well-formed one.
LEMMA IdleRequests ==
  /\ I!Idle \in I!Request /\ I!Idle.pc = "idle"
  /\ L!Idle \in L!Request /\ L!Idle.pc = "idle" /\ L!Idle.tid = None
  /\ None \notin I!User /\ None \notin L!Token /\ None \notin Tids
  /\ "idle" \notin Sending /\ "idle" \notin Redeeming
  BY NoneAssumption
  DEF I!Idle, I!Request, I!PCs, L!Idle, L!Request, L!PCs, Sending, Redeeming

\* A step of SignUp or of the OAuth handlers keeps what is said of links.
LEMMA JoinKeepsLinks ==
  ASSUME Inv, UNCHANGED linkVars, I!TypeOK', I!Accounts \subseteq I!Accounts',
         JoiningHolds'
  PROVE  Inv'
<1>1. UNCHANGED <<tokens, mailed, now, linking, redeemed, unmarked>>
  BY DEF linkVars
<1>2. TypeOK'
  BY <1>1 DEF Inv, TypeOK
<1>3. LinkingHolds'
  BY <1>1 DEF Inv, LinkingHolds
<1>4. TokensHold'
  BY <1>1 DEF Inv, TokensHold
<1>5. QED
  BY <1>2, <1>3, <1>4 DEF Inv

\* If request r becomes q and the tables keep their types, so do the others.
LEMMA JoinMove ==
  ASSUME Inv, UNCHANGED linkVars, NEW r \in Requests, NEW q \in I!Request,
         joining' = [joining EXCEPT ![r] = q],
         users' \in [Uids -> I!User \cup {None}], I!Accounts \subseteq I!Accounts',
         links' \in [Externals -> SUBSET Uids], lost' \subseteq Uids,
         q.pc \in {"signup_create", "oauth_email", "oauth_create"} => q.email \in Emails,
         q.pc \in {"signup_create", "oauth_create", "oauth_link", "link"} => q.user \in Uids,
         q.pc \in {"oauth_email", "oauth_create", "oauth_link", "link"}
           => q.external \in Externals
  PROVE  Inv'
<1>0. joining \in [Requests -> I!Request]
  BY DEF Inv, TypeOK, I!TypeOK
<1>1. /\ joining' \in [Requests -> I!Request]
      /\ joining'[r] = q /\ \A x \in Requests \ {r} : joining'[x] = joining[x]
  BY <1>0
<1>2. I!TypeOK'
  BY <1>1 DEF I!TypeOK
<1>3. JoiningHolds'
  BY <1>1 DEF Inv, JoiningHolds
<1>4. QED
  BY <1>2, <1>3, JoinKeepsLinks

\* So it is when the request ends.
LEMMA JoinReturn ==
  ASSUME Inv, UNCHANGED linkVars, NEW r \in Requests, I!Return(r),
         users' \in [Uids -> I!User \cup {None}], I!Accounts \subseteq I!Accounts',
         links' \in [Externals -> SUBSET Uids], lost' \subseteq Uids
  PROVE  Inv'
  BY IdleRequests, JoinMove DEF I!Return

\* The row that users.Create inserts.
LEMMA CreateUser ==
  ASSUME Inv, NEW u \in Uids, NEW e \in Emails, NEW b \in BOOLEAN,
         users' = [users EXCEPT ![u] = [email |-> e, password |-> b]]
  PROVE  /\ users' \in [Uids -> I!User \cup {None}]
         /\ I!Accounts' = I!Accounts \cup {u}
         /\ users'[u] = [email |-> e, password |-> b]
         /\ users'[u].email = e /\ users'[u].password = b
         /\ \A v \in Uids \ {u} : users'[v] = users[v]
<1>1. users \in [Uids -> I!User \cup {None}]
  BY DEF Inv, TypeOK, I!TypeOK
<1>2. [email |-> e, password |-> b] \in I!User
  BY DEF I!User
<1>3. users'[u] = [email |-> e, password |-> b] /\ \A v \in Uids \ {u} : users'[v] = users[v]
  BY <1>1
<1>4. I!Accounts' = I!Accounts \cup {u}
  BY <1>2, <1>3, IdleRequests DEF I!Accounts
<1>5. QED
  BY <1>1, <1>2, <1>3, <1>4

\* The arrival of a signup, an OAuth login or a link of an identity.
LEMMA JoinArriveStep ==
  ASSUME Inv, NEW r \in Requests, I!Arrive(r), UNCHANGED linkVars
  PROVE  Inv' /\ UNCHANGED <<users, links, lost>>
<1>0. /\ users \in [Uids -> I!User \cup {None}] /\ links \in [Externals -> SUBSET Uids]
      /\ lost \subseteq Uids
  BY DEF Inv, TypeOK, I!TypeOK
<1>1. UNCHANGED <<users, links, lost>>
  BY DEF I!Arrive, I!SignUp, I!LoginWithOAuth, I!LinkOAuthIdentity
<1>2. I!Accounts' = I!Accounts
  BY <1>1 DEF I!Accounts
<1>3. ASSUME NEW e \in Emails, I!SignUp(r, e)
      PROVE  Inv'
  <2>1. PICK u \in I!FreshUids :
          joining' = [joining EXCEPT ![r] = [I!Idle EXCEPT !.pc = "signup_create",
                                                           !.user = u, !.email = e]]
    BY <1>3 DEF I!SignUp
  <2> DEFINE q == [I!Idle EXCEPT !.pc = "signup_create", !.user = u, !.email = e]
  <2>2. u \in Uids
    BY DEF I!FreshUids
  <2>3. q \in I!Request /\ q.pc = "signup_create" /\ q.user = u /\ q.email = e
    BY <2>2 DEF I!Idle, I!Request, I!PCs
  <2>4. joining' = [joining EXCEPT ![r] = q]
    BY <2>1
  <2> HIDE DEF q
  <2>5. QED
    BY <1>0, <1>1, <1>2, <2>2, <2>3, <2>4, JoinMove
<1>4. ASSUME NEW x \in Externals, NEW e \in Emails, I!LoginWithOAuth(r, x, e)
      PROVE  Inv'
  <2> DEFINE q == [I!Idle EXCEPT !.pc = "oauth_email", !.email = e, !.external = x]
  <2>1. q \in I!Request /\ q.pc = "oauth_email" /\ q.email = e /\ q.external = x
    BY DEF I!Idle, I!Request, I!PCs
  <2>2. joining' = [joining EXCEPT ![r] = q]
    BY <1>4 DEF I!LoginWithOAuth
  <2> HIDE DEF q
  <2>3. QED
    BY <1>0, <1>1, <1>2, <2>1, <2>2, JoinMove
<1>5. ASSUME NEW u \in Uids, NEW x \in Externals, I!LinkOAuthIdentity(r, u, x)
      PROVE  Inv'
  <2> DEFINE q == [I!Idle EXCEPT !.pc = "link", !.user = u, !.external = x]
  <2>1. q \in I!Request /\ q.pc = "link" /\ q.user = u /\ q.external = x
    BY DEF I!Idle, I!Request, I!PCs
  <2>2. joining' = [joining EXCEPT ![r] = q]
    BY <1>5 DEF I!LinkOAuthIdentity
  <2> HIDE DEF q
  <2>3. QED
    BY <1>0, <1>1, <1>2, <2>1, <2>2, JoinMove
<1>6. QED
  BY <1>1, <1>3, <1>4, <1>5 DEF I!Arrive

\* The later store calls of the same handlers.
LEMMA JoinContinueStep ==
  ASSUME Inv, NEW r \in Requests, I!Continue(r) \/ I!StoreError(r), UNCHANGED linkVars
  PROVE  Inv'
<1>0. /\ users \in [Uids -> I!User \cup {None}] /\ links \in [Externals -> SUBSET Uids]
      /\ lost \subseteq Uids /\ joining[r] \in I!Request
  BY DEF Inv, TypeOK, I!TypeOK
<1>a. UNCHANGED users => I!Accounts' = I!Accounts
  BY DEF I!Accounts
<1>1. CASE I!SignUpCreate(r)
  <2>1. /\ I!Return(r) /\ UNCHANGED <<links, lost>>
        /\ joining[r].user \in Uids /\ joining[r].email \in Emails
    BY <1>1 DEF I!SignUpCreate, I!At, Inv, JoiningHolds
  <2>2. CASE UNCHANGED users
    BY <1>0, <1>a, <2>1, <2>2, JoinReturn
  <2>3. CASE users' = [users EXCEPT ![joining[r].user] = I!NewUser(r, TRUE)]
    BY <1>0, <2>1, <2>3, CreateUser, JoinReturn, ZenonT(30) DEF I!NewUser
  <2>4. QED
    BY <1>1, <2>2, <2>3 DEF I!SignUpCreate
<1>2. CASE I!OAuthEmailLookup(r)
  <2>1. /\ UNCHANGED <<users, links, lost>> /\ joining[r].email \in Emails
        /\ joining[r].external \in Externals
    BY <1>2 DEF I!OAuthEmailLookup, I!At, Inv, JoiningHolds
  <2>2. CASE I!Return(r)
    BY <1>0, <1>a, <2>1, <2>2, JoinReturn
  <2>3. ASSUME NEW u \in I!FreshUids,
               joining' = [joining EXCEPT ![r].pc = "oauth_create", ![r].user = u]
        PROVE  Inv'
    <3> DEFINE q == [joining[r] EXCEPT !.pc = "oauth_create", !.user = u]
    <3>1. u \in Uids
      BY DEF I!FreshUids
    <3>2. /\ q \in I!Request /\ q.pc = "oauth_create" /\ q.user = u
          /\ q.email = joining[r].email /\ q.external = joining[r].external
      BY <1>0, <3>1 DEF I!Request, I!PCs
    <3>3. joining' = [joining EXCEPT ![r] = q]
      BY <2>3
    <3> HIDE DEF q
    <3>4. QED
      BY <1>0, <1>a, <2>1, <3>1, <3>2, <3>3, JoinMove
  <2>4. QED
    BY <1>2, <2>2, <2>3 DEF I!OAuthEmailLookup
<1>3. CASE I!OAuthCreate(r)
  <2>1. /\ UNCHANGED <<links, lost>> /\ joining[r].email \in Emails
        /\ joining[r].user \in Uids /\ joining[r].external \in Externals
    BY <1>3 DEF I!OAuthCreate, I!At, Inv, JoiningHolds
  <2>2. CASE I!Return(r) /\ UNCHANGED users
    BY <1>0, <1>a, <2>1, <2>2, JoinReturn
  <2>3. CASE /\ users' = [users EXCEPT ![joining[r].user] = I!NewUser(r, FALSE)]
             /\ joining' = [joining EXCEPT ![r].pc = "oauth_link"]
    <3> DEFINE q == [joining[r] EXCEPT !.pc = "oauth_link"]
    <3>1. /\ q \in I!Request /\ q.pc = "oauth_link" /\ q.user = joining[r].user
          /\ q.external = joining[r].external
      BY <1>0 DEF I!Request, I!PCs
    <3>2. joining' = [joining EXCEPT ![r] = q]
      BY <2>3
    <3>3. users' \in [Uids -> I!User \cup {None}] /\ I!Accounts \subseteq I!Accounts'
      BY <2>1, <2>3, CreateUser, ZenonT(30) DEF I!NewUser
    <3> HIDE DEF q
    <3>4. QED
      BY <1>0, <2>1, <3>1, <3>2, <3>3, JoinMove
  <2>4. QED
    BY <1>3, <2>2, <2>3 DEF I!OAuthCreate
<1>4. CASE I!OAuthLink(r) \/ I!Link(r)
  <2>1. joining[r].user \in Uids /\ joining[r].external \in Externals
    BY <1>4 DEF I!OAuthLink, I!Link, I!At, Inv, JoiningHolds
  <2>2. I!InsertLink(r) /\ lost' \subseteq Uids
    BY <1>0, <1>4, <2>1 DEF I!OAuthLink, I!Link
  <2>3. /\ links' \in [Externals -> SUBSET Uids] /\ I!Return(r) /\ UNCHANGED users
    BY <1>0, <2>1, <2>2 DEF I!InsertLink
  <2>4. QED
    BY <1>0, <1>a, <2>2, <2>3, JoinReturn
<1>5. CASE I!StoreError(r)
  <2>1. /\ I!Return(r) /\ UNCHANGED <<users, links>>
        /\ lost' = IF I!At(r, "oauth_link") THEN lost \cup {joining[r].user} ELSE lost
    BY <1>5 DEF I!StoreError
  <2>2. lost' \subseteq Uids
    BY <1>0, <2>1 DEF Inv, JoiningHolds, I!At
  <2>3. QED
    BY <1>0, <1>a, <2>1, <2>2, JoinReturn
<1>6. QED
  BY <1>1, <1>2, <1>3, <1>4, <1>5 DEF I!Continue

-----------------------------------------------------------------------------

\* A step of a request that sends or redeems a link keeps what is said of the
\* others, if it stores no token but its own.
LEMMA LinkMove ==
  ASSUME Inv, UNCHANGED identityVars, NEW r \in Requests, NEW q \in L!Request,
         linking' = [linking EXCEPT ![r] = q],
         users' \in [Uids -> I!User \cup {None}], I!Accounts' = I!Accounts,
         tokens' \in [Tids -> L!Token \cup {None}],
         mailed' \subseteq {t \in Tids : tokens'[t] # None},
         now' \in Nat, redeemed' \in [Tids -> Nat], unmarked' \in [Tids -> Nat],
         \A t \in Tids : tokens[t] # None =>
           tokens'[t] # None /\ tokens'[t].user = tokens[t].user,
         \A t \in Tids : tokens[t] = None /\ tokens'[t] # None =>
           /\ tokens'[t].user \in I!Accounts
           /\ \A x \in Requests \ {r} : linking[x].tid # t,
         q.pc \in Sending =>
           /\ q.user \in I!Accounts /\ q.to \in Emails
           /\ q.tid \in Tids /\ tokens'[q.tid] = None
           /\ \A x \in Requests \ {r} : linking[x].tid # q.tid,
         q.pc \in Redeeming => q.tid \in Tids /\ tokens'[q.tid] # None,
         \A x \in Requests \ {r} : linking[x].pc \in Sending => linking[x].tid # q.tid
  PROVE  Inv'
<1>0. linking \in [Requests -> L!Request] /\ UNCHANGED <<links, joining, lost>>
  BY DEF Inv, TypeOK, identityVars
<1>1. /\ linking' \in [Requests -> L!Request]
      /\ linking'[r] = q /\ \A x \in Requests \ {r} : linking'[x] = linking[x]
  BY <1>0
<1>2. TypeOK'
  BY <1>0, <1>1 DEF Inv, TypeOK, I!TypeOK
<1>3. JoiningHolds'
  BY <1>0 DEF Inv, JoiningHolds
<1>4. LinkingHolds'
  <2>1. ASSUME NEW x \in Requests, linking'[x].pc \in Sending
        PROVE  /\ linking'[x].user \in I!Accounts' /\ linking'[x].to \in Emails
               /\ linking'[x].tid \in Tids /\ tokens'[linking'[x].tid] = None
               /\ \A y \in Requests \ {x} : linking'[y].tid # linking'[x].tid
    <3>1. CASE x = r
      BY <1>1, <2>1, <3>1
    <3>2. CASE x # r
      <4>1. /\ linking[x].user \in I!Accounts /\ linking[x].to \in Emails
            /\ linking[x].tid \in Tids /\ tokens[linking[x].tid] = None
            /\ \A y \in Requests \ {x} : linking[y].tid # linking[x].tid
        BY <1>1, <2>1, <3>2 DEF Inv, LinkingHolds
      <4>2. tokens'[linking[x].tid] = None
        BY <3>2, <4>1
      <4>3. q.tid # linking[x].tid
        BY <1>1, <2>1, <3>2
      <4>4. QED
        BY <1>1, <3>2, <4>1, <4>2, <4>3
    <3>3. QED
      BY <3>1, <3>2
  <2>2. ASSUME NEW x \in Requests, linking'[x].pc \in Redeeming
        PROVE  linking'[x].tid \in Tids /\ tokens'[linking'[x].tid] # None
    BY <1>1, <2>2 DEF Inv, LinkingHolds
  <2>3. QED
    BY <2>1, <2>2 DEF LinkingHolds
<1>5. TokensHold'
  BY DEF Inv, TokensHold
<1>6. QED
  BY <1>2, <1>3, <1>4, <1>5 DEF Inv

\* So it is when no token is stored, and r has the id it had, or none.
LEMMA LinkGoto ==
  ASSUME Inv, UNCHANGED identityVars, NEW r \in Requests, NEW q \in L!Request,
         linking' = [linking EXCEPT ![r] = q],
         users' \in [Uids -> I!User \cup {None}], I!Accounts' = I!Accounts,
         UNCHANGED <<tokens, mailed, now>>,
         redeemed' \in [Tids -> Nat], unmarked' \in [Tids -> Nat],
         q.pc \notin Sending, q.tid = None \/ q.tid = linking[r].tid,
         q.pc \in Redeeming => linking[r].pc \in Redeeming /\ q.tid = linking[r].tid
  PROVE  Inv'
<1>0. /\ tokens \in [Tids -> L!Token \cup {None}] /\ now \in Nat
      /\ mailed \subseteq {t \in Tids : tokens[t] # None}
  BY DEF Inv, TypeOK
<1>1. q.pc \in Redeeming => q.tid \in Tids /\ tokens'[q.tid] # None
  BY DEF Inv, LinkingHolds
<1>2. \A x \in Requests \ {r} : linking[x].pc \in Sending => linking[x].tid # q.tid
  BY IdleRequests DEF Inv, LinkingHolds
<1>3. QED
  BY <1>0, <1>1, <1>2, LinkMove

\* The arrival of a request that sends or redeems a link.
LEMMA LinkArriveStep ==
  ASSUME Inv, NEW r \in Requests, L!Arrive(r), UNCHANGED identityVars
  PROVE  Inv' /\ UNCHANGED <<users, tokens, redeemed, unmarked>>
<1>0. /\ users \in [Uids -> I!User \cup {None}] /\ now \in Nat
      /\ tokens \in [Tids -> L!Token \cup {None}]
      /\ mailed \subseteq {t \in Tids : tokens[t] # None}
      /\ redeemed \in [Tids -> Nat] /\ unmarked \in [Tids -> Nat]
  BY DEF Inv, TypeOK, I!TypeOK
<1>1. UNCHANGED <<users, tokens, mailed, now, redeemed, unmarked>>
  BY DEF L!Arrive, L!RequestMagicLink, L!RequestEmailChange, L!CompleteMagicLink,
         L!ConfirmEmailChange
<1>2. I!Accounts' = I!Accounts /\ L!Accounts = I!Accounts
  BY <1>1 DEF I!Accounts, L!Accounts
<1>3. ASSUME NEW t \in L!FreshTids, NEW pc \in Sending, NEW u \in I!Accounts,
             NEW e \in Emails,
             linking' = [linking EXCEPT ![r] = [pc |-> pc, user |-> u, to |-> e, tid |-> t]]
      PROVE  Inv'
  <2> DEFINE q == [pc |-> pc, user |-> u, to |-> e, tid |-> t]
  <2>1. t \in Tids /\ tokens[t] = None /\ \A x \in Requests : linking[x].tid # t
    BY DEF L!FreshTids
  <2>2. q \in L!Request /\ q.pc = pc /\ q.user = u /\ q.to = e /\ q.tid = t /\ pc \notin Redeeming
    BY <2>1 DEF L!Request, L!PCs, Sending, Redeeming, I!Accounts
  <2>3. linking' = [linking EXCEPT ![r] = q]
    BY <1>3
  <2> HIDE DEF q
  <2>4. QED
    BY <1>0, <1>1, <1>2, <2>1, <2>2, <2>3, LinkMove
<1>4. ASSUME NEW u \in Uids, L!RequestMagicLink(r, u)
      PROVE  Inv'
  <2>1. u \in I!Accounts /\ users[u].email \in Emails
    BY <1>0, <1>2, <1>4 DEF L!RequestMagicLink, I!Accounts, I!User
  <2>2. QED
    BY <1>3, <1>4, <2>1 DEF L!RequestMagicLink, Sending
<1>5. ASSUME NEW u \in Uids, NEW e \in Emails, L!RequestEmailChange(r, u, e)
      PROVE  Inv'
  BY <1>2, <1>3, <1>5 DEF L!RequestEmailChange, Sending
<1>6. ASSUME NEW t \in Tids, NEW pc \in {"magic_used", "change_email"}, t \in mailed,
             linking' = [linking EXCEPT ![r] = [L!Idle EXCEPT !.pc = pc, !.tid = t]]
      PROVE  Inv'
  <2> DEFINE q == [L!Idle EXCEPT !.pc = pc, !.tid = t]
  <2>1. q \in L!Request /\ q.pc = pc /\ q.tid = t /\ pc \notin Sending /\ tokens[t] # None
    BY <1>0, <1>6 DEF L!Idle, L!Request, L!PCs, Sending
  <2>2. linking' = [linking EXCEPT ![r] = q]
    BY <1>6
  <2>3. \A x \in Requests : linking[x].pc \in Sending => linking[x].tid # t
    BY <2>1 DEF Inv, LinkingHolds
  <2> HIDE DEF q
  <2>4. QED
    BY <1>0, <1>1, <1>2, <2>1, <2>2, <2>3, LinkMove
<1>7. ASSUME NEW t \in Tids, L!CompleteMagicLink(r, t) \/ L!ConfirmEmailChange(r, t)
      PROVE  Inv'
  BY <1>6, <1>7 DEF L!CompleteMagicLink, L!ConfirmEmailChange, L!Redeemable
<1>8. QED
  BY <1>1, <1>4, <1>5, <1>7 DEF L!Arrive

\* What MarkUsed does to the tokens.
LEMMA MarkUsedEffect ==
  ASSUME Inv, NEW t \in Tids, tokens[t] # None, L!MarkUsed(t)
  PROVE  /\ tokens' \in [Tids -> L!Token \cup {None}]
         /\ tokens'[t].used = TRUE
         /\ \A s \in Tids \ {t} : tokens'[s] = tokens[s]
         /\ \A s \in Tids : tokens[s] = None <=> tokens'[s] = None
         /\ \A s \in Tids : tokens[s] # None => tokens'[s].user = tokens[s].user
<1>1. tokens \in [Tids -> L!Token \cup {None}] /\ tokens[t] \in L!Token
  BY DEF Inv, TypeOK
<1>2. tokens' = [tokens EXCEPT ![t] = [tokens[t] EXCEPT !.used = TRUE]]
  BY DEF L!MarkUsed
<1>3. /\ [tokens[t] EXCEPT !.used = TRUE] \in L!Token
      /\ [tokens[t] EXCEPT !.used = TRUE].used = TRUE
      /\ [tokens[t] EXCEPT !.used = TRUE].user = tokens[t].user
  BY <1>1 DEF L!Token
<1>4. tokens'[t] = [tokens[t] EXCEPT !.used = TRUE] /\ \A s \in Tids \ {t} : tokens'[s] = tokens[s]
  BY <1>1, <1>2
<1>5. QED
  BY <1>1, <1>2, <1>3, <1>4, IdleRequests

\* What UpdateEmail does to the users.
LEMMA UpdateEmailEffect ==
  ASSUME Inv, NEW u \in I!Accounts, NEW e \in Emails, L!UpdateEmail(u, e)
  PROVE  /\ users' \in [Uids -> I!User \cup {None}] /\ I!Accounts' = I!Accounts
         /\ users'[u].email = e /\ users'[u].password = users[u].password
         /\ \A v \in Uids \ {u} : users'[v] = users[v]
<1>1. users \in [Uids -> I!User \cup {None}] /\ u \in Uids /\ users[u] \in I!User
  BY DEF Inv, TypeOK, I!TypeOK, I!Accounts
<1>2. users' = [users EXCEPT ![u] = [users[u] EXCEPT !.email = e]]
  BY DEF L!UpdateEmail
<1>3. /\ [users[u] EXCEPT !.email = e] \in I!User
      /\ [users[u] EXCEPT !.email = e].email = e
      /\ [users[u] EXCEPT !.email = e].password = users[u].password
  BY <1>1 DEF I!User
<1>4. users'[u] = [users[u] EXCEPT !.email = e] /\ \A v \in Uids \ {u} : users'[v] = users[v]
  BY <1>1, <1>2
<1>5. I!Accounts' = I!Accounts
  BY <1>1, <1>3, <1>4, IdleRequests DEF I!Accounts
<1>6. QED
  BY <1>1, <1>2, <1>3, <1>4, <1>5

\* The token that a redemption holds is for an account, and its address is one.
LEMMA TokenOf ==
  ASSUME Inv, NEW r \in Requests, linking[r].pc \in Redeeming
  PROVE  /\ linking[r].tid \in Tids /\ tokens[linking[r].tid] \in L!Token
         /\ tokens[linking[r].tid] # None
         /\ tokens[linking[r].tid].user \in I!Accounts
         /\ tokens[linking[r].tid].to \in Emails
<1>1. linking[r].tid \in Tids /\ tokens[linking[r].tid] # None
  BY DEF Inv, LinkingHolds
<1>2. tokens[linking[r].tid] \in L!Token
  BY <1>1 DEF Inv, TypeOK
<1>3. QED
  BY <1>1, <1>2 DEF Inv, TokensHold, L!Token

\* Storing a token.
LEMMA CreateTokenStep ==
  ASSUME Inv, NEW r \in Requests, UNCHANGED identityVars, linking[r].pc \in Sending,
         NEW purpose \in {"magic_link", "email_change"}, NEW ttl \in Nat,
         L!CreateToken(r, purpose, ttl)
  PROVE  /\ Inv' /\ linking[r].tid \in Tids
         /\ tokens[linking[r].tid] = None
         /\ tokens'[linking[r].tid] # None /\ tokens'[linking[r].tid].used = FALSE
         /\ \A s \in Tids \ {linking[r].tid} : tokens'[s] = tokens[s]
<1> DEFINE t == linking[r].tid
           new == [user |-> linking[r].user, purpose |-> purpose, to |-> linking[r].to,
                   expires |-> now + ttl, used |-> FALSE]
<1>0. /\ users \in [Uids -> I!User \cup {None}] /\ now \in Nat
      /\ tokens \in [Tids -> L!Token \cup {None}]
      /\ mailed \subseteq {s \in Tids : tokens[s] # None}
      /\ redeemed \in [Tids -> Nat] /\ unmarked \in [Tids -> Nat]
  BY DEF Inv, TypeOK, I!TypeOK
<1>1. /\ tokens' = [tokens EXCEPT ![t] = new] /\ mailed' \subseteq mailed \cup {t}
      /\ L!Return(r) /\ UNCHANGED <<users, now, redeemed, unmarked>>
  BY DEF L!CreateToken
<1>2. /\ linking[r].user \in I!Accounts /\ linking[r].to \in Emails
      /\ t \in Tids /\ tokens[t] = None
      /\ \A x \in Requests \ {r} : linking[x].tid # t
  BY DEF Inv, LinkingHolds
<1>3. now + ttl \in Nat
  BY <1>0
<1>4. new \in L!Token /\ new.user = linking[r].user /\ new.used = FALSE
  BY <1>2, <1>3 DEF L!Token, I!Accounts
<1> HIDE DEF new
<1>5. /\ tokens' \in [Tids -> L!Token \cup {None}] /\ tokens'[t] = new /\ new # None
      /\ \A s \in Tids \ {t} : tokens'[s] = tokens[s]
  BY <1>0, <1>1, <1>2, <1>4, IdleRequests
<1>6. mailed' \subseteq {s \in Tids : tokens'[s] # None}
  BY <1>0, <1>1, <1>2, <1>5
<1>7. I!Accounts' = I!Accounts
  BY <1>1 DEF I!Accounts
<1>8. linking' = [linking EXCEPT ![r] = L!Idle]
  BY <1>1 DEF L!Return
<1>9. \A x \in Requests \ {r} : linking[x].pc \in Sending => linking[x].tid # L!Idle.tid
  BY IdleRequests DEF Inv, LinkingHolds
<1>a. \A s \in Tids : tokens[s] # None =>
        tokens'[s] # None /\ tokens'[s].user = tokens[s].user
  BY <1>2, <1>5
<1>b. \A s \in Tids : tokens[s] = None /\ tokens'[s] # None =>
        /\ tokens'[s].user \in I!Accounts
        /\ \A x \in Requests \ {r} : linking[x].tid # s
  BY <1>2, <1>4, <1>5
<1>c. /\ L!Idle \in L!Request /\ L!Idle.pc \notin Sending /\ L!Idle.pc \notin Redeeming
      /\ now' \in Nat /\ redeemed' \in [Tids -> Nat] /\ unmarked' \in [Tids -> Nat]
      /\ users' \in [Uids -> I!User \cup {None}]
  BY <1>0, <1>1, IdleRequests
<1>10. Inv'
  BY <1>5, <1>6, <1>7, <1>8, <1>9, <1>a, <1>b, <1>c, LinkMove
<1>11. QED
  BY <1>2, <1>4, <1>5, <1>10

\* What MarkUsed leaves alone.
OnlyTokens == UNCHANGED <<users, mailed, now, redeemed, unmarked>>

\* Marking a token as used, with r gone on to q.
LEMMA MarkUsedStep ==
  ASSUME Inv, NEW r \in Requests, UNCHANGED identityVars, linking[r].pc \in Redeeming,
         L!MarkUsed(linking[r].tid), OnlyTokens,
         NEW q \in L!Request, linking' = [linking EXCEPT ![r] = q],
         q.pc \notin Sending, q.tid = None \/ q.tid = linking[r].tid,
         q.pc \in Redeeming => q.tid = linking[r].tid
  PROVE  Inv'
<1>0. /\ users \in [Uids -> I!User \cup {None}] /\ now \in Nat
      /\ mailed \subseteq {s \in Tids : tokens[s] # None}
      /\ redeemed \in [Tids -> Nat] /\ unmarked \in [Tids -> Nat]
  BY DEF Inv, TypeOK, I!TypeOK
<1>1. linking[r].tid \in Tids /\ tokens[linking[r].tid] # None
  BY TokenOf
<1>2. /\ tokens' \in [Tids -> L!Token \cup {None}]
      /\ \A s \in Tids : tokens[s] = None <=> tokens'[s] = None
      /\ \A s \in Tids : tokens[s] # None => tokens'[s].user = tokens[s].user
  BY <1>1, MarkUsedEffect
<1>3. I!Accounts' = I!Accounts
  BY DEF I!Accounts, OnlyTokens
<1>4. \A x \in Requests \ {r} : linking[x].pc \in Sending => linking[x].tid # q.tid
  BY IdleRequests DEF Inv, LinkingHolds
<1>5. mailed' \subseteq {s \in Tids : tokens'[s] # None}
  BY <1>0, <1>2 DEF OnlyTokens
<1>6. \A s \in Tids : tokens[s] # None =>
        tokens'[s] # None /\ tokens'[s].user = tokens[s].user
  BY <1>2
<1>7. \A s \in Tids : tokens[s] = None /\ tokens'[s] # None =>
        /\ tokens'[s].user \in I!Accounts
        /\ \A x \in Requests \ {r} : linking[x].tid # s
  BY <1>2
<1>8. /\ now' \in Nat /\ redeemed' \in [Tids -> Nat] /\ unmarked' \in [Tids -> Nat]
      /\ users' \in [Uids -> I!User \cup {None}]
  BY <1>0 DEF OnlyTokens
<1>9. q.pc \in Redeeming => q.tid \in Tids /\ tokens'[q.tid] # None
  BY <1>1, <1>2
<1>10. QED
  <2>1. tokens' \in [Tids -> L!Token \cup {None}]
    BY <1>2
  <2>2. QED
    BY <1>3, <1>4, <1>5, <1>6, <1>7, <1>8, <1>9, <2>1, LinkMove, ZenonT(60)

\* The later store calls of the handlers of links.
LEMMA LinkContinueStep ==
  ASSUME Inv, NEW r \in Requests, L!Continue(r) \/ L!StoreError(r) \/ L!MarkUsedError(r),
         UNCHANGED identityVars
  PROVE  Inv'
<1>0. /\ users \in [Uids -> I!User \cup {None}] /\ linking[r] \in L!Request
      /\ redeemed \in [Tids -> Nat] /\ unmarked \in [Tids -> Nat]
  BY DEF Inv, TypeOK, I!TypeOK
<1>a. UNCHANGED users => I!Accounts' = I!Accounts
  BY DEF I!Accounts
<1>1. CASE L!MagicCreate(r) \/ L!ChangeCreate(r)
  BY <1>1, CreateTokenStep, TTLAssumption DEF L!MagicCreate, L!ChangeCreate, L!At, Sending
<1>2. CASE L!MagicMarkUsed(r)
  <2> DEFINE q == [linking[r] EXCEPT !.pc = "magic_login"]
  <2>1. /\ q \in L!Request /\ q.pc = "magic_login" /\ q.tid = linking[r].tid
        /\ "magic_login" \notin Sending
    BY <1>0 DEF L!Request, L!PCs, Sending
  <2>2. linking' = [linking EXCEPT ![r] = q] /\ linking[r].pc \in Redeeming
    BY <1>2 DEF L!MagicMarkUsed, L!Goto, L!At, Redeeming
  <2> HIDE DEF q
  <2>3. QED
    BY <1>2, <2>1, <2>2, MarkUsedStep DEF L!MagicMarkUsed, OnlyTokens
<1>3. CASE L!MagicLogin(r)
  <2>1. linking[r].pc \in Redeeming
    BY <1>3 DEF L!MagicLogin, L!At, Redeeming
  <2>2. linking[r].tid \in Tids
    BY <2>1, TokenOf
  <2>3. redeemed' \in [Tids -> Nat]
    BY <1>0, <1>3, <2>2 DEF L!MagicLogin
  <2>4. QED
    BY <1>0, <1>a, <1>3, <2>3, IdleRequests, LinkGoto, ZenonT(30) DEF L!MagicLogin, L!Return
<1>4. CASE L!ConfirmUpdate(r)
  <2> DEFINE t == linking[r].tid
             q == [linking[r] EXCEPT !.pc = "change_used"]
  <2>1. linking[r].pc \in Redeeming /\ UNCHANGED <<tokens, mailed, now, unmarked>>
    BY <1>4 DEF L!ConfirmUpdate, L!At, Redeeming
  <2>2. t \in Tids /\ tokens[t].user \in I!Accounts /\ tokens[t].to \in Emails
    BY <2>1, TokenOf
  <2>3. CASE L!Return(r) /\ UNCHANGED <<users, redeemed>>
    BY <1>0, <1>a, <2>1, <2>3, IdleRequests, LinkGoto DEF L!Return
  <2>4. CASE /\ L!UpdateEmail(tokens[t].user, tokens[t].to)
             /\ redeemed' = [redeemed EXCEPT ![t] = @ + 1] /\ L!Goto(r, "change_used")
    <3>1. /\ q \in L!Request /\ q.pc = "change_used" /\ q.tid = t /\ "change_used" \notin Sending
      BY <1>0 DEF L!Request, L!PCs, Sending
    <3>2. redeemed' \in [Tids -> Nat] /\ linking' = [linking EXCEPT ![r] = q]
      BY <1>0, <2>2, <2>4 DEF L!Goto
    <3>3. users' \in [Uids -> I!User \cup {None}] /\ I!Accounts' = I!Accounts
      BY <2>2, <2>4, UpdateEmailEffect
    <3> HIDE DEF q
    <3>4. QED
      BY <1>0, <2>1, <3>1, <3>2, <3>3, LinkGoto
  <2>5. QED
    BY <1>4, <2>3, <2>4 DEF L!ConfirmUpdate
<1>5. CASE L!ConfirmMarkUsed(r)
  <2>1. linking[r].pc \in Redeeming
    BY <1>5 DEF L!ConfirmMarkUsed, L!At, Redeeming
  <2>2. QED
    BY <1>5, <2>1, IdleRequests, MarkUsedStep DEF L!ConfirmMarkUsed, L!Return, OnlyTokens
<1>6. CASE L!StoreError(r)
  BY <1>0, <1>a, <1>6, IdleRequests, LinkGoto DEF L!StoreError, L!Return
<1>7. CASE L!MarkUsedError(r)
  <2>1. linking[r].pc \in Redeeming /\ UNCHANGED <<users, tokens, mailed, now, redeemed>>
    BY <1>7 DEF L!MarkUsedError, L!At, Redeeming
  <2>2. linking[r].tid \in Tids
    BY <2>1, TokenOf
  <2>3. unmarked' \in [Tids -> Nat]
    BY <1>0, <1>7, <2>2 DEF L!MarkUsedError
  <2>4. CASE L!Return(r)
    BY <1>0, <1>a, <2>1, <2>3, <2>4, IdleRequests, LinkGoto DEF L!Return
  <2>5. CASE L!Goto(r, "magic_login")
    <3> DEFINE q == [linking[r] EXCEPT !.pc = "magic_login"]
    <3>1. /\ q \in L!Request /\ q.pc = "magic_login" /\ q.tid = linking[r].tid
          /\ "magic_login" \notin Sending
      BY <1>0 DEF L!Request, L!PCs, Sending
    <3>2. linking' = [linking EXCEPT ![r] = q]
      BY <2>5 DEF L!Goto
    <3> HIDE DEF q
    <3>3. QED
      BY <1>0, <1>a, <2>1, <2>3, <3>1, <3>2, LinkGoto
  <2>6. QED
    BY <1>7, <2>4, <2>5 DEF L!MarkUsedError
<1>8. QED
  BY <1>1, <1>2, <1>3, <1>4, <1>5, <1>6, <1>7 DEF L!Continue

-----------------------------------------------------------------------------
(* The invariant *)

\* It holds before the first request.
LEMMA InitInv == Init => Inv
<1> SUFFICES ASSUME Init PROVE Inv
  OBVIOUS
<1> USE DEF Init, I!Init, L!Init
<1>1. TypeOK
  BY IdleRequests DEF TypeOK, I!TypeOK
<1>2. JoiningHolds
  BY IdleRequests DEF JoiningHolds
<1>3. LinkingHolds
  BY IdleRequests DEF LinkingHolds
<1>4. TokensHold
  BY DEF TokensHold
<1>5. QED
  BY <1>1, <1>2, <1>3, <1>4 DEF Inv

\* It says nothing of the clock but that it is a number.
LEMMA TickStep ==
  ASSUME Inv, UNCHANGED <<users, links, joining, lost, tokens, mailed, linking,
                          redeemed, unmarked>>, now' \in Nat
  PROVE  Inv'
<1>1. TypeOK'
  BY DEF Inv, TypeOK, I!TypeOK
<1>2. JoiningHolds' /\ LinkingHolds' /\ TokensHold'
  BY DEF Inv, JoiningHolds, LinkingHolds, TokensHold, I!Accounts
<1>3. QED
  BY <1>1, <1>2 DEF Inv

\* Every step of a goroutine, of the clock and of nobody keeps it.
LEMMA NextInv == Inv /\ [Next]_vars => Inv'
<1> SUFFICES ASSUME Inv, [Next]_vars PROVE Inv'
  OBVIOUS
<1>0. now \in Nat
  BY DEF Inv, TypeOK
<1>1. CASE UNCHANGED vars
  BY <1>0, <1>1, TickStep DEF vars, identityVars, linkVars
<1>2. CASE Tick
  BY <1>0, <1>2, TickStep DEF Tick, L!Tick, identityVars
<1>3. ASSUME NEW r \in Requests, JoinArrives(r)
      PROVE  Inv'
  BY <1>3, JoinArriveStep DEF JoinArrives
<1>4. ASSUME NEW r \in Requests, LinkArrives(r)
      PROVE  Inv'
  BY <1>4, LinkArriveStep DEF LinkArrives
<1>5. ASSUME NEW r \in Requests, JoinStep(r)
      PROVE  Inv'
  BY <1>5, JoinContinueStep DEF JoinStep
<1>6. ASSUME NEW r \in Requests, LinkStep(r)
      PROVE  Inv'
  BY <1>6, LinkContinueStep DEF LinkStep
<1>7. QED
  BY <1>1, <1>2, <1>3, <1>4, <1>5, <1>6 DEF Next

\* Whatever requests do, each one in flight holds what its next store call needs.
THEOREM AlwaysInv == Spec => []Inv
  BY InitInv, NextInv, PTL DEF Spec

\* The tables, the links and the requests always have their types.
THEOREM TypeCorrect == Spec => []TypeOK
<1>1. Inv => TypeOK
  BY DEF Inv
<1>2. QED
  BY AlwaysInv, <1>1, PTL

-----------------------------------------------------------------------------
(* Addresses and identities *)

\* All that a step does to the users table: nothing, an insert that the store
\* allowed, of an account with a password or of one that is about to be linked,
\* or an update of an address that the store allowed.
LEMMA UsersStep ==
  ASSUME Inv, [Next]_vars
  PROVE  \/ UNCHANGED users
         \/ \E u \in Uids, e \in Emails, b \in BOOLEAN :
              /\ I!CreateAllowed(e)
              /\ \E r \in Requests : joining[r].pc \in Creating /\ joining[r].user = u
              /\ users' = [users EXCEPT ![u] = [email |-> e, password |-> b]]
              /\ b \/ \E r \in Requests :
                        joining'[r].pc = "oauth_link" /\ joining'[r].user = u
         \/ \E u \in I!Accounts, e \in Emails : L!EmailAllowed(u, e) /\ L!UpdateEmail(u, e)
<1>1. ASSUME UNCHANGED vars \/ Tick
      PROVE  UNCHANGED users
  BY <1>1 DEF vars, Tick, L!Tick
<1>2. ASSUME NEW r \in Requests, JoinArrives(r) \/ LinkArrives(r)
      PROVE  UNCHANGED users
  BY <1>2, JoinArriveStep, LinkArriveStep DEF JoinArrives, LinkArrives
<1>3. ASSUME NEW r \in Requests, I!SignUpCreate(r)
      PROVE  \/ UNCHANGED users
             \/ \E u \in Uids, e \in Emails :
                  /\ I!CreateAllowed(e)
                  /\ joining[r].pc \in Creating /\ joining[r].user = u
                  /\ users' = [users EXCEPT ![u] = [email |-> e, password |-> TRUE]]
  <2>1. /\ joining[r].user \in Uids /\ joining[r].email \in Emails
        /\ joining[r].pc \in Creating
    BY <1>3 DEF I!SignUpCreate, I!At, Inv, JoiningHolds, Creating
  <2>2. QED
    BY <1>3, <2>1 DEF I!SignUpCreate, I!NewUser
<1>4. ASSUME NEW r \in Requests, I!OAuthCreate(r)
      PROVE  \/ UNCHANGED users
             \/ \E u \in Uids, e \in Emails :
                  /\ I!CreateAllowed(e)
                  /\ joining[r].pc \in Creating /\ joining[r].user = u
                  /\ users' = [users EXCEPT ![u] = [email |-> e, password |-> FALSE]]
                  /\ joining'[r].pc = "oauth_link" /\ joining'[r].user = u
  <2>1. /\ joining[r].user \in Uids /\ joining[r].email \in Emails
        /\ joining \in [Requests -> I!Request] /\ joining[r].pc \in Creating
    BY <1>4 DEF I!OAuthCreate, I!At, Inv, JoiningHolds, TypeOK, I!TypeOK, Creating
  <2>2. joining' = [joining EXCEPT ![r].pc = "oauth_link"] =>
          joining'[r].pc = "oauth_link" /\ joining'[r].user = joining[r].user
    <3> DEFINE q == [joining[r] EXCEPT !.pc = "oauth_link"]
    <3>1. q.pc = "oauth_link" /\ q.user = joining[r].user
      BY <2>1 DEF I!Request
    <3>2. joining' = [joining EXCEPT ![r].pc = "oauth_link"] => joining'[r] = q
      BY <2>1
    <3> HIDE DEF q
    <3>3. QED
      BY <3>1, <3>2
  <2>3. QED
    BY <1>4, <2>1, <2>2 DEF I!OAuthCreate, I!NewUser
<1>5. ASSUME NEW r \in Requests, L!ConfirmUpdate(r)
      PROVE  \/ UNCHANGED users
             \/ \E u \in I!Accounts, e \in Emails : L!EmailAllowed(u, e) /\ L!UpdateEmail(u, e)
  <2>1. linking[r].pc \in Redeeming
    BY <1>5 DEF L!ConfirmUpdate, L!At, Redeeming
  <2>2. tokens[linking[r].tid].user \in I!Accounts /\ tokens[linking[r].tid].to \in Emails
    BY <2>1, TokenOf
  <2>3. QED
    BY <1>5, <2>2 DEF L!ConfirmUpdate
<1>6. ASSUME NEW r \in Requests, JoinStep(r), ~I!SignUpCreate(r), ~I!OAuthCreate(r)
      PROVE  UNCHANGED users
  BY <1>6 DEF JoinStep, I!Continue, I!StoreError, I!OAuthEmailLookup, I!OAuthLink, I!Link,
              I!InsertLink
<1>7. ASSUME NEW r \in Requests, LinkStep(r), ~L!ConfirmUpdate(r)
      PROVE  UNCHANGED users
  BY <1>7 DEF LinkStep, L!Continue, L!StoreError, L!MarkUsedError, L!MagicCreate,
              L!ChangeCreate, L!CreateToken, L!MagicMarkUsed, L!MagicLogin, L!ConfirmMarkUsed
<1>8. CASE UNCHANGED users
  BY <1>8
<1>9. CASE users' # users
  <2>1. PICK r \in Requests : JoinStep(r) \/ LinkStep(r)
    BY <1>1, <1>2, <1>9 DEF Next
  <2>2. I!SignUpCreate(r) \/ I!OAuthCreate(r) \/ L!ConfirmUpdate(r)
    BY <1>6, <1>7, <1>9, <2>1
  <2>3. CASE I!SignUpCreate(r)
    BY <1>3, <1>9, <2>3
  <2>4. CASE I!OAuthCreate(r)
    BY <1>4, <1>9, <2>4
  <2>5. CASE L!ConfirmUpdate(r)
    BY <1>5, <1>9, <2>5
  <2>6. QED
    BY <2>2, <2>3, <2>4, <2>5
<1>10. QED
  BY <1>8, <1>9

\* Over a store with the UNIQUE constraints, no two accounts ever have one
\* address, however many signups, OAuth logins and email changes race for it.
THEOREM AlwaysEmailsUnique ==
  ASSUME Backend # "memory"
  PROVE  Spec => []EmailsUnique
<1>1. Init => EmailsUnique
  BY DEF Init, I!Init, EmailsUnique, I!Accounts
<1>2. ASSUME Inv, EmailsUnique, [Next]_vars
      PROVE  EmailsUnique'
  <2>1. CASE UNCHANGED users
    BY <1>2, <2>1 DEF EmailsUnique, I!Accounts
  <2>2. ASSUME NEW u \in Uids, NEW e \in Emails, NEW b \in BOOLEAN, I!CreateAllowed(e),
               users' = [users EXCEPT ![u] = [email |-> e, password |-> b]]
        PROVE  EmailsUnique'
    <3>1. \A v \in I!Accounts : users[v].email # e
      BY <2>2 DEF I!CreateAllowed, I!GetByEmail
    <3>2. /\ I!Accounts' = I!Accounts \cup {u} /\ users'[u].email = e
          /\ \A v \in Uids \ {u} : users'[v] = users[v]
      BY <1>2, <2>2, CreateUser
    <3>3. I!Accounts \subseteq Uids
      BY DEF I!Accounts
    <3>4. QED
      BY <1>2, <3>1, <3>2, <3>3 DEF EmailsUnique
  <2>3. ASSUME NEW u \in I!Accounts, NEW e \in Emails, L!EmailAllowed(u, e), L!UpdateEmail(u, e)
        PROVE  EmailsUnique'
    <3>1. \A v \in I!Accounts \ {u} : users[v].email # e
      BY <2>3 DEF L!EmailAllowed, L!Accounts, I!Accounts
    <3>2. /\ I!Accounts' = I!Accounts /\ users'[u].email = e
          /\ \A v \in Uids \ {u} : users'[v] = users[v]
      BY <1>2, <2>3, UpdateEmailEffect
    <3>3. I!Accounts \subseteq Uids
      BY DEF I!Accounts
    <3>4. QED
      BY <1>2, <3>1, <3>2, <3>3 DEF EmailsUnique
  <2>4. QED
    BY <1>2, <2>1, <2>2, <2>3, UsersStep
<1>3. QED
  BY <1>1, <1>2, AlwaysInv, PTL DEF Spec

\* All that a step does to the identities and to the requests that are to link
\* one.
LEMMA LinksStep ==
  ASSUME Inv, [Next]_vars
  PROVE  /\ lost \subseteq lost'
         /\ \A x \in Externals : links[x] \subseteq links'[x]
         /\ Backend # "memory" =>
              \A x \in Externals : links[x] # {} => links'[x] = links[x]
         /\ \A r \in Requests : I!At(r, "oauth_link") =>
              \/ joining'[r] = joining[r]
              \/ joining[r].user \in lost'
              \/ \E x \in Externals : joining[r].user \in links'[x]
<1>0. links \in [Externals -> SUBSET Uids] /\ joining \in [Requests -> I!Request]
  BY DEF Inv, TypeOK, I!TypeOK
<1>1. CASE UNCHANGED <<links, lost, joining>>
  BY <1>1
<1>2. ASSUME NEW r \in Requests, ~I!At(r, "oauth_link"), UNCHANGED <<links, lost>>,
             NEW q, joining' = [joining EXCEPT ![r] = q]
      PROVE  /\ UNCHANGED <<links, lost>>
             /\ \A x \in Requests : I!At(x, "oauth_link") => joining'[x] = joining[x]
  BY <1>0, <1>2 DEF I!At
<1>3. ASSUME NEW r \in Requests, I!Arrive(r)
      PROVE  /\ UNCHANGED <<links, lost>>
             /\ \A x \in Requests : I!At(x, "oauth_link") => joining'[x] = joining[x]
  BY <1>2, <1>3 DEF I!Arrive, I!SignUp, I!LoginWithOAuth, I!LinkOAuthIdentity, I!At
<1>4. ASSUME NEW r \in Requests, I!SignUpCreate(r) \/ I!OAuthEmailLookup(r) \/ I!OAuthCreate(r)
      PROVE  /\ UNCHANGED <<links, lost>>
             /\ \A x \in Requests : I!At(x, "oauth_link") => joining'[x] = joining[x]
  BY <1>0, <1>4 DEF I!SignUpCreate, I!OAuthEmailLookup, I!OAuthCreate, I!At, I!Return
<1>5. ASSUME NEW r \in Requests, I!OAuthLink(r) \/ I!Link(r)
      PROVE  /\ lost \subseteq lost'
             /\ \A x \in Externals : links[x] \subseteq links'[x]
             /\ Backend # "memory" =>
                  \A x \in Externals : links[x] # {} => links'[x] = links[x]
             /\ \A x \in Requests \ {r} : joining'[x] = joining[x]
             /\ I!At(r, "oauth_link") =>
                  \/ joining[r].user \in lost'
                  \/ \E x \in Externals : joining[r].user \in links'[x]
  <2>1. joining[r].user \in Uids /\ joining[r].external \in Externals
    BY <1>5 DEF I!OAuthLink, I!Link, I!At, Inv, JoiningHolds
  <2>2. /\ I!InsertLink(r) /\ lost \subseteq lost'
        /\ I!At(r, "oauth_link") /\ ~I!LinkAllowed(joining[r].external)
             => joining[r].user \in lost'
    BY <1>5 DEF I!OAuthLink, I!Link, I!At
  <2>3. \A x \in Requests \ {r} : joining'[x] = joining[x]
    BY <1>0, <2>2 DEF I!InsertLink, I!Return
  <2>4. CASE I!LinkAllowed(joining[r].external)
    <3>1. /\ links'[joining[r].external] = links[joining[r].external] \cup {joining[r].user}
          /\ \A x \in Externals \ {joining[r].external} : links'[x] = links[x]
      BY <1>0, <2>1, <2>2, <2>4 DEF I!InsertLink
    <3>2. Backend # "memory" => links[joining[r].external] = {}
      BY <2>1, <2>4 DEF I!LinkAllowed, I!Linked
    <3>3. QED
      BY <2>1, <2>2, <2>3, <3>1, <3>2
  <2>5. CASE ~I!LinkAllowed(joining[r].external)
    <3>1. UNCHANGED links
      BY <2>2, <2>5 DEF I!InsertLink
    <3>2. QED
      BY <2>2, <2>3, <2>5, <3>1
  <2>6. QED
    BY <2>4, <2>5
<1>6. ASSUME NEW r \in Requests, I!StoreError(r)
      PROVE  /\ UNCHANGED links /\ lost \subseteq lost'
             /\ \A x \in Requests \ {r} : joining'[x] = joining[x]
             /\ I!At(r, "oauth_link") => joining[r].user \in lost'
  BY <1>0, <1>6 DEF I!StoreError, I!Return
<1>7. CASE \E r \in Requests : JoinArrives(r)
  BY <1>3, <1>7 DEF JoinArrives
<1>8. ASSUME NEW r \in Requests, JoinStep(r)
      PROVE  /\ lost \subseteq lost'
             /\ \A x \in Externals : links[x] \subseteq links'[x]
             /\ Backend # "memory" =>
                  \A x \in Externals : links[x] # {} => links'[x] = links[x]
             /\ \A x \in Requests : I!At(x, "oauth_link") =>
                  \/ joining'[x] = joining[x]
                  \/ joining[x].user \in lost'
                  \/ \E y \in Externals : joining[x].user \in links'[y]
  <2>1. CASE I!SignUpCreate(r) \/ I!OAuthEmailLookup(r) \/ I!OAuthCreate(r)
    BY <1>4, <2>1
  <2>2. CASE I!OAuthLink(r) \/ I!Link(r)
    BY <1>5, <2>2
  <2>3. CASE I!StoreError(r)
    BY <1>6, <2>3
  <2>4. QED
    BY <1>8, <2>1, <2>2, <2>3 DEF JoinStep, I!Continue
<1>9. QED
  BY <1>1, <1>7, <1>8 DEF Next, vars, identityVars, Tick, LinkArrives, LinkStep

\* Over a store with the UNIQUE constraints, a linked identity is never linked
\* to anybody else.
THEOREM AlwaysLinkNeverRepointed ==
  ASSUME Backend # "memory"
  PROVE  Spec => LinkNeverRepointed
<1>1. Inv /\ [Next]_vars =>
        [\A x \in Externals : links[x] # {} => links'[x] = links[x]]_vars
  BY LinksStep
<1>2. QED
  BY <1>1, AlwaysInv, PTL DEF Spec, LinkNeverRepointed

\* Over every store, an account that was created without a password has the
\* identity it was created for, or is about to get it, unless that was lost.
THEOREM AlwaysPasswordlessHasIdentity == Spec => []PasswordlessHasIdentity
<1>1. Init => PasswordlessHasIdentity
  BY DEF Init, I!Init, PasswordlessHasIdentity, I!Accounts
<1> DEFINE Linked(u) == \E x \in Externals : u \in links[x]
           Linking(u) == \E r \in Requests : I!At(r, "oauth_link") /\ joining[r].user = u
<1>2. ASSUME Inv, PasswordlessHasIdentity, [Next]_vars
      PROVE  PasswordlessHasIdentity'
  <2>1. ASSUME NEW u \in Uids, Linked(u) \/ Linking(u) \/ u \in lost
        PROVE  Linked(u)' \/ Linking(u)' \/ u \in lost'
    BY <1>2, <2>1, LinksStep DEF I!At
  <2>2. ASSUME NEW u \in I!Accounts, ~users[u].password
        PROVE  Linked(u) \/ Linking(u) \/ u \in lost
    BY <1>2, <2>2 DEF PasswordlessHasIdentity
  <2>3. SUFFICES ASSUME NEW u \in I!Accounts', ~users'[u].password
                 PROVE  Linked(u)' \/ Linking(u)' \/ u \in lost'
    BY DEF PasswordlessHasIdentity
  <2>4. u \in Uids /\ I!Accounts \subseteq Uids
    BY DEF I!Accounts
  <2>5. (u \in I!Accounts /\ ~users[u].password) \/ Linking(u)'
    <3>1. CASE UNCHANGED users
      BY <2>3, <3>1 DEF I!Accounts
    <3>2. ASSUME NEW v \in Uids, NEW e \in Emails, NEW b \in BOOLEAN,
                 users' = [users EXCEPT ![v] = [email |-> e, password |-> b]],
                 b \/ \E r \in Requests :
                       joining'[r].pc = "oauth_link" /\ joining'[r].user = v
          PROVE  (u \in I!Accounts /\ ~users[u].password) \/ Linking(u)'
      <4>1. /\ I!Accounts' = I!Accounts \cup {v} /\ users'[v].password = b
            /\ \A w \in Uids \ {v} : users'[w] = users[w]
        BY <1>2, <3>2, CreateUser
      <4>2. CASE u = v
        BY <2>3, <3>2, <4>1, <4>2 DEF I!At
      <4>3. CASE u # v
        BY <2>3, <2>4, <4>1, <4>3
      <4>4. QED
        BY <4>2, <4>3
    <3>3. ASSUME NEW v \in I!Accounts, NEW e \in Emails, L!UpdateEmail(v, e)
          PROVE  u \in I!Accounts /\ ~users[u].password
      <4>1. /\ I!Accounts' = I!Accounts /\ users'[v].password = users[v].password
            /\ \A w \in Uids \ {v} : users'[w] = users[w]
        BY <1>2, <3>3, UpdateEmailEffect
      <4>2. QED
        BY <2>3, <2>4, <4>1
    <3>4. QED
      BY <1>2, <3>1, <3>2, <3>3, UsersStep
  <2>6. QED
    BY <2>1, <2>2, <2>4, <2>5
<1>3. QED
  BY <1>1, <1>2, AlwaysInv, PTL DEF Spec

-----------------------------------------------------------------------------
(* How often a link is redeemed *)

\* The requests that hold link t and are at one of pcs.
Holders(t, pcs) == {r \in Requests : linking[r].tid = t /\ linking[r].pc \in pcs}

\* A request that holds a link and has yet to redeem it.
Reading == {"magic_used", "change_email"}
ToRedeem == Reading \cup {"magic_login"}

\* The row of link t is marked used.
Used(t) == tokens[t] # None /\ tokens[t].used

\* Until the link is marked, each redemption is owed to a MarkUsed that failed
\* or to an email change that has yet to call it; from then on, nobody new can
\* read it, and those who did are at most all.
RedeemAt(t) ==
  IF Used(t)
  THEN redeemed[t] + Cardinality(Holders(t, ToRedeem))
         <= Cardinality(Requests) + unmarked[t]
  ELSE redeemed[t] + Cardinality(Holders(t, {"magic_login"}))
         <= unmarked[t] + Cardinality(Holders(t, {"change_used"}))

RedeemInv == \A t \in Tids : RedeemAt(t)

\* The holders of a link are finitely many, and one is at one pc only.
LEMMA HoldersCount ==
  ASSUME IsFiniteSet(Requests), NEW t
  PROVE  /\ Cardinality(Requests) \in Nat
         /\ \A pcs : IsFiniteSet(Holders(t, pcs)) /\ Cardinality(Holders(t, pcs)) \in Nat
         /\ Cardinality(Holders(t, ToRedeem)) =
              Cardinality(Holders(t, {"magic_login"})) + Cardinality(Holders(t, Reading))
         /\ Cardinality(Holders(t, Reading)) + Cardinality(Holders(t, {"change_used"}))
              <= Cardinality(Requests)
<1> DEFINE M == Holders(t, {"magic_login"})
           R == Holders(t, Reading)
           C == Holders(t, {"change_used"})
<1>1. Cardinality(Requests) \in Nat
  BY FS_CardinalityType
<1>2. ASSUME NEW pcs
      PROVE  IsFiniteSet(Holders(t, pcs)) /\ Cardinality(Holders(t, pcs)) \in Nat
  <2>1. Holders(t, pcs) \in SUBSET Requests
    BY DEF Holders
  <2>2. QED
    BY <2>1, FS_Subset, FS_CardinalityType
<1>3. /\ M \cap R = {} /\ R \cap C = {} /\ M \cup R = Holders(t, ToRedeem)
      /\ R \cup C \in SUBSET Requests
  BY DEF Holders, Reading, ToRedeem
<1>4. /\ IsFiniteSet(M) /\ IsFiniteSet(R) /\ IsFiniteSet(C)
      /\ Cardinality(M) \in Nat /\ Cardinality(R) \in Nat /\ Cardinality(C) \in Nat
  BY <1>2
<1>5. Cardinality(R \cup C) <= Cardinality(Requests)
  BY <1>3, FS_Subset
<1> HIDE DEF M, R, C
<1>6. /\ Cardinality(M \cup R) = Cardinality(M) + Cardinality(R) - Cardinality(M \cap R)
      /\ Cardinality(R \cup C) = Cardinality(R) + Cardinality(C) - Cardinality(R \cap C)
  BY <1>4, FS_Union
<1>7. Cardinality(M \cap R) = 0 /\ Cardinality(R \cap C) = 0
  BY <1>3, FS_EmptySet
<1>8. /\ Cardinality(M \cup R) = Cardinality(M) + Cardinality(R)
      /\ Cardinality(R) + Cardinality(C) <= Cardinality(Requests)
  BY <1>1, <1>4, <1>5, <1>6, <1>7
<1>9. QED
  BY <1>1, <1>2, <1>3, <1>8 DEF M, R, C

\* Only the request that moves changes how many hold a link at some pcs.
LEMMA HoldersMove ==
  ASSUME IsFiniteSet(Requests), NEW r \in Requests, NEW t, NEW pcs,
         \A x \in Requests \ {r} : linking'[x] = linking[x]
  PROVE  Cardinality(Holders(t, pcs)') =
           Cardinality(Holders(t, pcs))
             + (IF linking'[r].tid = t /\ linking'[r].pc \in pcs THEN 1 ELSE 0)
             - (IF linking[r].tid = t /\ linking[r].pc \in pcs THEN 1 ELSE 0)
<1> DEFINE S == Holders(t, pcs)  T == Holders(t, pcs)'
<1>1. IsFiniteSet(S) /\ Cardinality(S) \in Nat
  BY HoldersCount
<1>2. /\ (r \in S) = (linking[r].tid = t /\ linking[r].pc \in pcs)
      /\ (r \in T) = (linking'[r].tid = t /\ linking'[r].pc \in pcs)
      /\ T \ {r} = S \ {r}
  BY DEF Holders
<1>3. /\ r \in T => T = (S \ {r}) \cup {r}
      /\ r \notin T => T = S \ {r}
  BY <1>2
<1>4. /\ IsFiniteSet(S \ {r})
      /\ Cardinality(S \ {r}) = IF r \in S THEN Cardinality(S) - 1 ELSE Cardinality(S)
  BY <1>1, FS_RemoveElement
<1>5. Cardinality((S \ {r}) \cup {r}) = Cardinality(S \ {r}) + 1
  BY <1>4, FS_AddElement
<1> HIDE DEF S, T
<1>6. Cardinality(T) = Cardinality(S) + (IF r \in T THEN 1 ELSE 0) - (IF r \in S THEN 1 ELSE 0)
  <2>1. CASE r \in T
    <3>1. Cardinality(T) = Cardinality(S \ {r}) + 1
      BY <1>3, <1>5, <2>1
    <3>2. QED
      BY <1>1, <1>4, <2>1, <3>1
  <2>2. CASE r \notin T
    <3>1. Cardinality(T) = Cardinality(S \ {r})
      BY <1>3, <2>2
    <3>2. QED
      BY <1>1, <1>4, <2>2, <3>1
  <2>3. QED
    BY <2>1, <2>2
<1>7. QED
  BY <1>2, <1>6 DEF S, T

\* Marked or not, those who redeemed a link and those who are yet to are no more
\* than all requests and the MarkUsed calls that failed.
LEMMA RedeemBound ==
  ASSUME IsFiniteSet(Requests), Inv, NEW t \in Tids, RedeemAt(t)
  PROVE  redeemed[t] + Cardinality(Holders(t, ToRedeem)) <= Cardinality(Requests) + unmarked[t]
<1>1. redeemed[t] \in Nat /\ unmarked[t] \in Nat
  BY DEF Inv, TypeOK
<1>2. /\ Cardinality(Requests) \in Nat
      /\ Cardinality(Holders(t, {"magic_login"})) \in Nat
      /\ Cardinality(Holders(t, Reading)) \in Nat
      /\ Cardinality(Holders(t, {"change_used"})) \in Nat
      /\ Cardinality(Holders(t, ToRedeem)) =
           Cardinality(Holders(t, {"magic_login"})) + Cardinality(Holders(t, Reading))
      /\ Cardinality(Holders(t, Reading)) + Cardinality(Holders(t, {"change_used"}))
           <= Cardinality(Requests)
  BY HoldersCount
<1>3. QED
  BY <1>1, <1>2 DEF RedeemAt

\* A step of r that neither redeems link t nor marks it, nor brings r where the
\* bound counts it.
LEMMA RedeemQuiet ==
  ASSUME IsFiniteSet(Requests), Inv, NEW t \in Tids, RedeemAt(t),
         NEW r \in Requests, \A x \in Requests \ {r} : linking'[x] = linking[x],
         redeemed'[t] = redeemed[t], unmarked'[t] = unmarked[t], Used(t)' = Used(t),
         Used(t) /\ linking'[r].tid = t => linking'[r].pc \notin ToRedeem,
         linking'[r].tid = t => linking'[r].pc # "magic_login",
         linking[r].tid = t => linking[r].pc # "change_used"
  PROVE  RedeemAt(t)'
<1>1. redeemed[t] \in Nat /\ unmarked[t] \in Nat
  BY DEF Inv, TypeOK
<1>2. /\ Cardinality(Requests) \in Nat
      /\ Cardinality(Holders(t, {"magic_login"})) \in Nat
      /\ Cardinality(Holders(t, ToRedeem)) \in Nat
      /\ Cardinality(Holders(t, {"change_used"})) \in Nat
  BY HoldersCount
<1>3. Used(t) => /\ Cardinality(Holders(t, ToRedeem)') \in Int
                 /\ Cardinality(Holders(t, ToRedeem)') <= Cardinality(Holders(t, ToRedeem))
  BY <1>2, HoldersMove
<1>4. /\ Cardinality(Holders(t, {"magic_login"})') \in Int
      /\ Cardinality(Holders(t, {"magic_login"})') <= Cardinality(Holders(t, {"magic_login"}))
  BY <1>2, HoldersMove
<1>5. /\ Cardinality(Holders(t, {"change_used"})') \in Int
      /\ Cardinality(Holders(t, {"change_used"})') >= Cardinality(Holders(t, {"change_used"}))
  BY <1>2, HoldersMove
<1>6. CASE Used(t)
  BY <1>1, <1>2, <1>3, <1>6 DEF RedeemAt
<1>7. CASE ~Used(t)
  BY <1>1, <1>2, <1>4, <1>5, <1>7 DEF RedeemAt
<1>8. QED
  BY <1>6, <1>7

\* Where a request is after it went on or returned.
LEMMA LinkPcAfter ==
  ASSUME Inv, NEW r \in Requests
  PROVE  /\ \A pc : L!Goto(r, pc) =>
              /\ linking'[r].pc = pc /\ linking'[r].tid = linking[r].tid
              /\ \A x \in Requests \ {r} : linking'[x] = linking[x]
         /\ L!Return(r) =>
              /\ linking'[r].pc = "idle" /\ linking'[r].tid = None
              /\ \A x \in Requests \ {r} : linking'[x] = linking[x]
<1>1. linking \in [Requests -> L!Request] /\ linking[r] \in L!Request
  BY DEF Inv, TypeOK
<1>2. ASSUME NEW pc, L!Goto(r, pc)
      PROVE  /\ linking'[r].pc = pc /\ linking'[r].tid = linking[r].tid
             /\ \A x \in Requests \ {r} : linking'[x] = linking[x]
  <2> DEFINE q == [linking[r] EXCEPT !.pc = pc]
  <2>1. q.pc = pc /\ q.tid = linking[r].tid
    BY <1>1 DEF L!Request
  <2>2. linking' = [linking EXCEPT ![r] = q]
    BY <1>2 DEF L!Goto
  <2> HIDE DEF q
  <2>3. QED
    BY <1>1, <2>1, <2>2
<1>3. L!Return(r) =>
        /\ linking'[r].pc = "idle" /\ linking'[r].tid = None
        /\ \A x \in Requests \ {r} : linking'[x] = linking[x]
  BY <1>1, IdleRequests DEF L!Return
<1>4. QED
  BY <1>2, <1>3

\* Reading a link that is not marked, and sending one, redeem nothing.
LEMMA RedeemArrives ==
  ASSUME IsFiniteSet(Requests), Inv, NEW t \in Tids, RedeemAt(t),
         NEW r \in Requests, L!Arrive(r)
  PROVE  RedeemAt(t)'
<1>0. linking \in [Requests -> L!Request]
  BY DEF Inv, TypeOK
<1>1. UNCHANGED <<tokens, redeemed, unmarked>> /\ linking[r].pc = "idle"
  BY DEF L!Arrive, L!RequestMagicLink, L!RequestEmailChange, L!CompleteMagicLink,
         L!ConfirmEmailChange, L!At
<1>2. Used(t)' = Used(t)
  BY <1>1 DEF Used
<1>3. \A x \in Requests \ {r} : linking'[x] = linking[x]
  BY <1>0 DEF L!Arrive, L!RequestMagicLink, L!RequestEmailChange, L!CompleteMagicLink,
              L!ConfirmEmailChange
<1>4. \/ linking'[r].pc \in {"magic_create", "change_create"}
      \/ linking'[r].pc \in Reading /\ linking'[r].tid \in Tids /\ ~Used(linking'[r].tid)
  <2>1. ASSUME NEW u \in Uids, L!RequestMagicLink(r, u)
        PROVE  linking'[r].pc = "magic_create"
    BY <1>0, <2>1 DEF L!RequestMagicLink
  <2>2. ASSUME NEW u \in Uids, NEW e \in Emails, L!RequestEmailChange(r, u, e)
        PROVE  linking'[r].pc = "change_create"
    BY <1>0, <2>2 DEF L!RequestEmailChange
  <2>3. ASSUME NEW s \in Tids, L!CompleteMagicLink(r, s) \/ L!ConfirmEmailChange(r, s)
        PROVE  /\ linking'[r].pc \in Reading /\ linking'[r].tid \in Tids
               /\ ~Used(linking'[r].tid)
    <3>1. linking'[r].pc \in Reading /\ linking'[r].tid = s /\ ~tokens[s].used
      BY <1>0, <2>3 DEF L!CompleteMagicLink, L!ConfirmEmailChange, L!Redeemable, L!Idle, Reading
    <3>2. QED
      BY <3>1 DEF Used
  <2>4. QED
    BY <2>1, <2>2, <2>3 DEF L!Arrive
<1>5. linking'[r].pc # "magic_login" /\ linking[r].pc # "change_used"
  BY <1>1, <1>4 DEF Reading
<1>6. Used(t) /\ linking'[r].tid = t => linking'[r].pc \notin ToRedeem
  BY <1>4 DEF ToRedeem, Reading
<1>7. QED
  BY <1>1, <1>2, <1>3, <1>5, <1>6, RedeemQuiet

\* The later store calls of the handlers, link by link.
LEMMA RedeemStep ==
  ASSUME IsFiniteSet(Requests), Inv, NEW t \in Tids, RedeemAt(t),
         NEW r \in Requests, L!Continue(r) \/ L!StoreError(r) \/ L!MarkUsedError(r),
         UNCHANGED identityVars
  PROVE  RedeemAt(t)'
<1>0. /\ redeemed \in [Tids -> Nat] /\ unmarked \in [Tids -> Nat]
      /\ tokens \in [Tids -> L!Token \cup {None}] /\ t # None
  BY IdleRequests DEF Inv, TypeOK
<1>c. /\ Cardinality(Requests) \in Nat
      /\ \A pcs : Cardinality(Holders(t, pcs)) \in Nat
  BY HoldersCount
<1>b. redeemed[t] + Cardinality(Holders(t, ToRedeem)) <= Cardinality(Requests) + unmarked[t]
  BY RedeemBound
<1>u. UNCHANGED tokens => Used(t)' = Used(t)
  BY DEF Used
<1>1. CASE L!MagicCreate(r) \/ L!ChangeCreate(r)
  <2>1. /\ L!Return(r) /\ linking[r].pc \in Sending /\ UNCHANGED <<redeemed, unmarked>>
        /\ linking[r].pc # "change_used"
    BY <1>1 DEF L!MagicCreate, L!ChangeCreate, L!CreateToken, L!At, Sending
  <2>2. /\ tokens[linking[r].tid] = None /\ tokens'[linking[r].tid].used = FALSE
        /\ \A s \in Tids \ {linking[r].tid} : tokens'[s] = tokens[s]
    BY <1>1, <2>1, CreateTokenStep, TTLAssumption DEF L!MagicCreate, L!ChangeCreate
  <2>3. Used(t)' = Used(t)
    BY <2>2 DEF Used
  <2>4. QED
    BY <1>0, <2>1, <2>3, LinkPcAfter, RedeemQuiet
<1>2. CASE L!MagicMarkUsed(r) \/ L!ConfirmMarkUsed(r)
  <2>1. /\ L!MarkUsed(linking[r].tid) /\ linking[r].pc \in Redeeming
        /\ UNCHANGED <<redeemed, unmarked>>
        /\ \/ linking[r].pc = "magic_used" /\ L!Goto(r, "magic_login")
           \/ linking[r].pc = "change_used" /\ L!Return(r)
    BY <1>2 DEF L!MagicMarkUsed, L!ConfirmMarkUsed, L!At, Redeeming
  <2>2. linking[r].tid \in Tids /\ tokens[linking[r].tid] # None
    BY <2>1, TokenOf
  <2>3. /\ tokens'[linking[r].tid].used = TRUE /\ tokens'[linking[r].tid] # None
        /\ \A s \in Tids \ {linking[r].tid} : tokens'[s] = tokens[s]
    BY <2>1, <2>2, MarkUsedEffect
  <2>4. /\ \A x \in Requests \ {r} : linking'[x] = linking[x]
        /\ linking'[r].tid \in {None, linking[r].tid}
    BY <2>1, LinkPcAfter
  <2>5. CASE t = linking[r].tid
    <3>1. Used(t)'
      BY <2>3, <2>5 DEF Used
    <3>2. linking'[r].tid = t /\ linking'[r].pc \in ToRedeem
            <=> linking[r].tid = t /\ linking[r].pc \in ToRedeem
      BY <1>0, <2>1, <2>5, LinkPcAfter DEF ToRedeem, Reading
    <3>3. Cardinality(Holders(t, ToRedeem)') = Cardinality(Holders(t, ToRedeem))
      BY <1>c, <2>4, <3>2, HoldersMove
    <3>4. QED
      BY <1>b, <2>1, <3>1, <3>3 DEF RedeemAt
  <2>6. CASE t # linking[r].tid
    <3>1. Used(t)' = Used(t)
      BY <2>3, <2>6 DEF Used
    <3>2. QED
      BY <1>0, <2>1, <2>4, <2>6, <3>1, RedeemQuiet
  <2>7. QED
    BY <2>5, <2>6
<1>3. CASE L!MagicLogin(r)
  <2>1. /\ linking[r].pc = "magic_login" /\ L!Return(r) /\ UNCHANGED <<tokens, unmarked>>
        /\ redeemed' = [redeemed EXCEPT ![linking[r].tid] = @ + 1]
    BY <1>3 DEF L!MagicLogin, L!At
  <2>2. /\ \A x \in Requests \ {r} : linking'[x] = linking[x]
        /\ linking'[r].tid = None /\ linking'[r].pc = "idle"
    BY <2>1, LinkPcAfter
  <2>3. CASE t = linking[r].tid
    <3>1. redeemed'[t] = redeemed[t] + 1 /\ redeemed[t] \in Nat /\ unmarked[t] \in Nat
      BY <1>0, <2>1, <2>3
    <3>2. /\ Cardinality(Holders(t, ToRedeem)') = Cardinality(Holders(t, ToRedeem)) - 1
          /\ Cardinality(Holders(t, {"magic_login"})')
               = Cardinality(Holders(t, {"magic_login"})) - 1
          /\ Cardinality(Holders(t, {"change_used"})') = Cardinality(Holders(t, {"change_used"}))
      BY <1>0, <1>c, <2>1, <2>2, <2>3, HoldersMove DEF ToRedeem
    <3>3. QED
      BY <1>c, <1>u, <2>1, <3>1, <3>2 DEF RedeemAt
  <2>4. CASE t # linking[r].tid
    <3>1. redeemed'[t] = redeemed[t]
      BY <1>0, <2>1, <2>4
    <3>2. QED
      BY <1>0, <1>u, <2>1, <2>2, <2>4, <3>1, RedeemQuiet
  <2>5. QED
    BY <2>3, <2>4
<1>4. CASE L!ConfirmUpdate(r)
  <2>1. linking[r].pc = "change_email" /\ UNCHANGED <<tokens, unmarked>>
    BY <1>4 DEF L!ConfirmUpdate, L!At
  <2>2. CASE L!Return(r) /\ UNCHANGED redeemed
    BY <1>0, <1>u, <2>1, <2>2, LinkPcAfter, RedeemQuiet
  <2>3. CASE /\ redeemed' = [redeemed EXCEPT ![linking[r].tid] = @ + 1]
             /\ L!Goto(r, "change_used")
    <3>1. /\ \A x \in Requests \ {r} : linking'[x] = linking[x]
          /\ linking'[r].tid = linking[r].tid /\ linking'[r].pc = "change_used"
      BY <2>3, LinkPcAfter
    <3>2. CASE t = linking[r].tid
      <4>1. redeemed'[t] = redeemed[t] + 1 /\ redeemed[t] \in Nat /\ unmarked[t] \in Nat
        BY <1>0, <2>3, <3>2
      <4>2. /\ Cardinality(Holders(t, ToRedeem)') = Cardinality(Holders(t, ToRedeem)) - 1
            /\ Cardinality(Holders(t, {"magic_login"})')
                 = Cardinality(Holders(t, {"magic_login"}))
            /\ Cardinality(Holders(t, {"change_used"})')
                 = Cardinality(Holders(t, {"change_used"})) + 1
        BY <1>c, <2>1, <3>1, <3>2, HoldersMove DEF ToRedeem, Reading
      <4>3. QED
        BY <1>c, <1>u, <2>1, <4>1, <4>2 DEF RedeemAt
    <3>3. CASE t # linking[r].tid
      <4>1. redeemed'[t] = redeemed[t]
        BY <1>0, <2>3, <3>3
      <4>2. QED
        BY <1>u, <2>1, <3>1, <3>3, <4>1, RedeemQuiet
    <3>4. QED
      BY <3>2, <3>3
  <2>4. QED
    BY <1>4, <2>2, <2>3 DEF L!ConfirmUpdate
<1>5. CASE L!StoreError(r)
  <2>1. /\ L!Return(r) /\ UNCHANGED <<tokens, redeemed, unmarked>>
        /\ linking[r].pc # "change_used"
    BY <1>5 DEF L!StoreError
  <2>2. QED
    BY <1>0, <1>u, <2>1, LinkPcAfter, RedeemQuiet
<1>6. CASE L!MarkUsedError(r)
  <2>1. /\ unmarked' = [unmarked EXCEPT ![linking[r].tid] = @ + 1]
        /\ UNCHANGED <<tokens, redeemed>>
        /\ \/ linking[r].pc = "magic_used" /\ L!Goto(r, "magic_login")
           \/ linking[r].pc = "change_used" /\ L!Return(r)
    BY <1>6 DEF L!MarkUsedError, L!At
  <2>2. /\ \A x \in Requests \ {r} : linking'[x] = linking[x]
        /\ linking'[r].tid \in {None, linking[r].tid}
    BY <2>1, LinkPcAfter
  <2>3. CASE t = linking[r].tid
    <3>1. unmarked'[t] = unmarked[t] + 1 /\ redeemed[t] \in Nat /\ unmarked[t] \in Nat
      BY <1>0, <2>1, <2>3
    <3>2. CASE linking[r].pc = "magic_used" /\ L!Goto(r, "magic_login")
      <4>1. linking'[r].pc = "magic_login" /\ linking'[r].tid = t
        BY <2>3, <3>2, LinkPcAfter
      <4>2. /\ Cardinality(Holders(t, ToRedeem)') = Cardinality(Holders(t, ToRedeem))
            /\ Cardinality(Holders(t, {"magic_login"})')
                 = Cardinality(Holders(t, {"magic_login"})) + 1
            /\ Cardinality(Holders(t, {"change_used"})')
                 = Cardinality(Holders(t, {"change_used"}))
        BY <1>c, <2>2, <2>3, <3>2, <4>1, HoldersMove DEF ToRedeem, Reading
      <4>3. QED
        BY <1>c, <1>u, <2>1, <3>1, <4>2 DEF RedeemAt
    <3>3. CASE linking[r].pc = "change_used" /\ L!Return(r)
      <4>1. linking'[r].pc = "idle" /\ linking'[r].tid # t
        BY <1>0, <3>3, LinkPcAfter
      <4>2. /\ Cardinality(Holders(t, ToRedeem)') = Cardinality(Holders(t, ToRedeem))
            /\ Cardinality(Holders(t, {"magic_login"})')
                 = Cardinality(Holders(t, {"magic_login"}))
            /\ Cardinality(Holders(t, {"change_used"})')
                 = Cardinality(Holders(t, {"change_used"})) - 1
        BY <1>c, <2>2, <2>3, <3>3, <4>1, HoldersMove DEF ToRedeem, Reading
      <4>3. QED
        BY <1>c, <1>u, <2>1, <3>1, <4>2 DEF RedeemAt
    <3>4. QED
      BY <2>1, <3>2, <3>3
  <2>4. CASE t # linking[r].tid
    <3>1. unmarked'[t] = unmarked[t]
      BY <1>0, <2>1, <2>4
    <3>2. QED
      BY <1>0, <1>u, <2>1, <2>2, <2>4, <3>1, RedeemQuiet
  <2>5. QED
    BY <2>3, <2>4
<1>7. QED
  BY <1>1, <1>2, <1>3, <1>4, <1>5, <1>6 DEF L!Continue

\* However many requests redeem a link at once, it is redeemed at most once for
\* each of them and once for every MarkUsed that failed.
THEOREM AlwaysRedemptionsBounded ==
  ASSUME IsFiniteSet(Requests)
  PROVE  Spec => []RedemptionsBounded
<1>1. Init => RedeemInv
  <2> SUFFICES ASSUME Init, NEW t \in Tids PROVE RedeemAt(t)
    BY DEF RedeemInv
  <2>1. redeemed[t] = 0 /\ unmarked[t] = 0 /\ ~Used(t)
    BY DEF Init, L!Init, Used
  <2>2. Holders(t, {"magic_login"}) = {}
    BY IdleRequests DEF Init, L!Init, Holders
  <2>3. Cardinality(Holders(t, {"magic_login"})) = 0
    BY <2>2, FS_EmptySet
  <2>4. Cardinality(Holders(t, {"change_used"})) \in Nat
    BY HoldersCount
  <2>5. QED
    BY <2>1, <2>3, <2>4 DEF RedeemAt
<1>2. Inv /\ RedeemInv /\ [Next]_vars => RedeemInv'
  <2> SUFFICES ASSUME Inv, RedeemInv, [Next]_vars, NEW t \in Tids PROVE RedeemAt(t)'
    BY DEF RedeemInv
  <2>0. RedeemAt(t)
    BY DEF RedeemInv
  <2>1. CASE UNCHANGED <<linking, tokens, redeemed, unmarked>>
    BY <2>0, <2>1 DEF RedeemAt, Used, Holders
  <2>2. ASSUME NEW r \in Requests, LinkArrives(r)
        PROVE  RedeemAt(t)'
    BY <2>0, <2>2, RedeemArrives DEF LinkArrives
  <2>3. ASSUME NEW r \in Requests, LinkStep(r)
        PROVE  RedeemAt(t)'
    BY <2>0, <2>3, RedeemStep DEF LinkStep
  <2>4. QED
    BY <2>1, <2>2, <2>3 DEF Next, vars, linkVars, Tick, L!Tick, JoinArrives, JoinStep
<1>3. Inv /\ RedeemInv => RedemptionsBounded
  <2> SUFFICES ASSUME Inv, RedeemInv, NEW t \in Tids
               PROVE  redeemed[t] <= Cardinality(Requests) + unmarked[t]
    BY DEF RedemptionsBounded
  <2>1. redeemed[t] + Cardinality(Holders(t, ToRedeem)) <= Cardinality(Requests) + unmarked[t]
    BY RedeemBound DEF RedeemInv
  <2>2. /\ redeemed[t] \in Nat /\ unmarked[t] \in Nat /\ Cardinality(Requests) \in Nat
        /\ Cardinality(Holders(t, ToRedeem)) \in Nat
    BY HoldersCount DEF Inv, TypeOK
  <2>3. QED
    BY <2>1, <2>2
<1>4. QED
  BY <1>1, <1>2, <1>3, AlwaysInv, PTL DEF Spec

-----------------------------------------------------------------------------
(* The address book *)

\* Whoever is about to insert an account holds an id that no row and no other
\* request has; whoever is about to link an identity holds the id of an account;
\* and over a store with the UNIQUE constraint an identity has one account.
Held ==
  /\ \A r \in Requests :
       /\ joining[r].pc \in Creating =>
            /\ joining[r].user \notin I!Accounts
            /\ \A q \in Requests \ {r} : joining[q].user # joining[r].user
       /\ joining[r].pc \in Adopting => joining[r].user \in I!Accounts
  /\ \A x \in Externals : links[x] = {} \/ \E u \in I!Accounts : links[x] = {u}

\* If request r becomes q, and the tables gain at most what it held, the others
\* hold what they held.
LEMMA HeldMove ==
  ASSUME Inv, Held, NEW r \in Requests, NEW q \in I!Request,
         joining' = [joining EXCEPT ![r] = q],
         \/ I!Accounts' = I!Accounts
         \/ joining[r].pc \in Creating /\ I!Accounts' = I!Accounts \cup {joining[r].user},
         \A x \in Externals : \/ links'[x] = links[x]
                              \/ \E u \in I!Accounts' : links'[x] = {u},
         q.user \in {None, joining[r].user} \cup I!Accounts \cup I!FreshUids,
         q.pc \in Creating => q.user \in I!FreshUids,
         q.pc \in Adopting => q.user \in I!Accounts'
  PROVE  Held'
<1>0. /\ joining \in [Requests -> I!Request]
      /\ joining'[r] = q /\ \A x \in Requests \ {r} : joining'[x] = joining[x]
  BY DEF Inv, TypeOK, I!TypeOK
<1>1. ASSUME NEW x \in Requests, joining'[x].pc \in Creating
      PROVE  /\ joining'[x].user \notin I!Accounts'
             /\ \A y \in Requests \ {x} : joining'[y].user # joining'[x].user
  <2>1. CASE x = r
    <3>1. /\ q.user \in I!FreshUids /\ q.user \notin I!Accounts
          /\ \A y \in Requests : joining[y].user # q.user
      BY <1>0, <1>1, <2>1 DEF I!FreshUids
    <3>2. QED
      BY <1>0, <2>1, <3>1
  <2>2. CASE x # r
    <3>1. /\ joining[x].user \notin I!Accounts /\ joining[r].user # joining[x].user
          /\ \A y \in Requests \ {x} : joining[y].user # joining[x].user
      BY <1>0, <1>1, <2>2 DEF Held
    <3>2. joining[x].user \in Uids /\ joining[x].user # None
      BY <1>0, <1>1, <2>2, NoneAssumption DEF Inv, JoiningHolds, Creating
    <3>3. joining[x].user \notin I!FreshUids
      BY DEF I!FreshUids
    <3>4. q.user # joining[x].user
      BY <3>1, <3>2, <3>3
    <3>5. QED
      BY <1>0, <2>2, <3>1, <3>4
  <2>3. QED
    BY <2>1, <2>2
<1>2. ASSUME NEW x \in Requests, joining'[x].pc \in Adopting
      PROVE  joining'[x].user \in I!Accounts'
  BY <1>0, <1>2 DEF Held
<1>3. \A x \in Externals : links'[x] = {} \/ \E u \in I!Accounts' : links'[x] = {u}
  BY DEF Held
<1>4. QED
  BY <1>1, <1>2, <1>3 DEF Held

\* So it is when the request ends.
LEMMA HeldReturn ==
  ASSUME Inv, Held, NEW r \in Requests, I!Return(r),
         \/ I!Accounts' = I!Accounts
         \/ joining[r].pc \in Creating /\ I!Accounts' = I!Accounts \cup {joining[r].user},
         \A x \in Externals : \/ links'[x] = links[x]
                              \/ \E u \in I!Accounts' : links'[x] = {u}
  PROVE  Held'
<1>1. I!Idle.user = None /\ I!Idle.pc \notin Creating /\ I!Idle.pc \notin Adopting
  BY DEF I!Idle, Creating, Adopting
<1>2. QED
  BY <1>1, IdleRequests, HeldMove DEF I!Return

\* The insert of an identity, where the store takes it: of one that nobody had,
\* for an account.
LEMMA InsertLinkStep ==
  ASSUME Inv, Held, Backend # "memory", NEW r \in Requests, I!OAuthLink(r) \/ I!Link(r)
  PROVE  /\ I!Return(r) /\ UNCHANGED users
         /\ \/ UNCHANGED links
            \/ \E x \in Externals, u \in I!Accounts :
                 links[x] = {} /\ links' = [links EXCEPT ![x] = {u}]
<1>0. /\ joining[r].external \in Externals /\ joining[r].user \in I!Accounts
      /\ I!InsertLink(r) /\ links \in [Externals -> SUBSET Uids]
  BY DEF I!OAuthLink, I!Link, I!At, Inv, JoiningHolds, Held, Adopting, TypeOK, I!TypeOK
<1>1. CASE I!LinkAllowed(joining[r].external)
  <2>1. links[joining[r].external] = {}
    BY <1>0, <1>1 DEF I!LinkAllowed, I!Linked
  <2>2. links' = [links EXCEPT ![joining[r].external] = {joining[r].user}]
    BY <1>0, <1>1, <2>1 DEF I!InsertLink
  <2>3. QED
    BY <1>0, <2>1, <2>2 DEF I!InsertLink
<1>2. CASE ~I!LinkAllowed(joining[r].external)
  BY <1>0, <1>2 DEF I!InsertLink
<1>3. QED
  BY <1>1, <1>2

\* What requests hold when they arrive.
LEMMA HeldArrives ==
  ASSUME Inv, Held, NEW r \in Requests, I!Arrive(r)
  PROVE  Held'
<1>0. UNCHANGED <<users, links>> /\ I!Accounts' = I!Accounts
  BY DEF I!Arrive, I!SignUp, I!LoginWithOAuth, I!LinkOAuthIdentity, I!Accounts
<1>1. ASSUME NEW e \in Emails, I!SignUp(r, e)
      PROVE  Held'
  <2>1. PICK u \in I!FreshUids :
          joining' = [joining EXCEPT ![r] = [I!Idle EXCEPT !.pc = "signup_create",
                                                           !.user = u, !.email = e]]
    BY <1>1 DEF I!SignUp
  <2> DEFINE q == [I!Idle EXCEPT !.pc = "signup_create", !.user = u, !.email = e]
  <2>2. q \in I!Request /\ q.pc = "signup_create" /\ q.user = u
    BY DEF I!Idle, I!Request, I!PCs, I!FreshUids
  <2>3. joining' = [joining EXCEPT ![r] = q]
    BY <2>1
  <2> HIDE DEF q
  <2>4. QED
    BY <1>0, <2>2, <2>3, HeldMove DEF Adopting
<1>2. ASSUME NEW x \in Externals, NEW e \in Emails, I!LoginWithOAuth(r, x, e)
      PROVE  Held'
  <2> DEFINE q == [I!Idle EXCEPT !.pc = "oauth_email", !.email = e, !.external = x]
  <2>1. q \in I!Request /\ q.pc = "oauth_email" /\ q.user = None
    BY DEF I!Idle, I!Request, I!PCs
  <2>2. joining' = [joining EXCEPT ![r] = q]
    BY <1>2 DEF I!LoginWithOAuth
  <2> HIDE DEF q
  <2>3. QED
    BY <1>0, <2>1, <2>2, HeldMove DEF Creating, Adopting
<1>3. ASSUME NEW u \in Uids, NEW x \in Externals, I!LinkOAuthIdentity(r, u, x)
      PROVE  Held'
  <2> DEFINE q == [I!Idle EXCEPT !.pc = "link", !.user = u, !.external = x]
  <2>1. q \in I!Request /\ q.pc = "link" /\ q.user = u
    BY DEF I!Idle, I!Request, I!PCs
  <2>2. joining' = [joining EXCEPT ![r] = q] /\ u \in I!Accounts
    BY <1>3 DEF I!LinkOAuthIdentity
  <2> HIDE DEF q
  <2>3. QED
    BY <1>0, <2>1, <2>2, HeldMove DEF Creating
<1>4. QED
  BY <1>1, <1>2, <1>3 DEF I!Arrive

\* And what they hold after their later store calls.
LEMMA HeldContinues ==
  ASSUME Inv, Held, Backend # "memory", NEW r \in Requests, I!Continue(r) \/ I!StoreError(r)
  PROVE  Held'
<1>0. joining[r] \in I!Request /\ links \in [Externals -> SUBSET Uids]
  BY DEF Inv, TypeOK, I!TypeOK
<1>a. UNCHANGED users => I!Accounts' = I!Accounts
  BY DEF I!Accounts
<1>1. CASE I!SignUpCreate(r)
  <2>1. /\ I!Return(r) /\ UNCHANGED links /\ joining[r].pc \in Creating
        /\ joining[r].user \in Uids /\ joining[r].email \in Emails
    BY <1>1 DEF I!SignUpCreate, I!At, Inv, JoiningHolds, Creating
  <2>2. CASE UNCHANGED users
    BY <1>a, <2>1, <2>2, HeldReturn
  <2>3. CASE users' = [users EXCEPT ![joining[r].user] = I!NewUser(r, TRUE)]
    <3>1. I!Accounts' = I!Accounts \cup {joining[r].user}
      BY <2>1, <2>3, CreateUser, ZenonT(30) DEF I!NewUser
    <3>2. QED
      BY <2>1, <3>1, HeldReturn
  <2>4. QED
    BY <1>1, <2>2, <2>3 DEF I!SignUpCreate
<1>2. CASE I!OAuthEmailLookup(r)
  <2>1. UNCHANGED <<users, links>>
    BY <1>2 DEF I!OAuthEmailLookup
  <2>2. CASE I!Return(r)
    BY <1>a, <2>1, <2>2, HeldReturn
  <2>3. ASSUME NEW u \in I!FreshUids,
               joining' = [joining EXCEPT ![r].pc = "oauth_create", ![r].user = u]
        PROVE  Held'
    <3> DEFINE q == [joining[r] EXCEPT !.pc = "oauth_create", !.user = u]
    <3>1. q \in I!Request /\ q.pc = "oauth_create" /\ q.user = u
      BY <1>0 DEF I!Request, I!PCs, I!FreshUids
    <3>2. joining' = [joining EXCEPT ![r] = q]
      BY <2>3
    <3> HIDE DEF q
    <3>3. QED
      BY <1>a, <2>1, <3>1, <3>2, HeldMove DEF Adopting
  <2>4. QED
    BY <1>2, <2>2, <2>3 DEF I!OAuthEmailLookup
<1>3. CASE I!OAuthCreate(r)
  <2>1. /\ UNCHANGED links /\ joining[r].pc \in Creating
        /\ joining[r].user \in Uids /\ joining[r].email \in Emails
    BY <1>3 DEF I!OAuthCreate, I!At, Inv, JoiningHolds, Creating
  <2>2. CASE I!Return(r) /\ UNCHANGED users
    BY <1>a, <2>1, <2>2, HeldReturn
  <2>3. CASE /\ users' = [users EXCEPT ![joining[r].user] = I!NewUser(r, FALSE)]
             /\ joining' = [joining EXCEPT ![r].pc = "oauth_link"]
    <3> DEFINE q == [joining[r] EXCEPT !.pc = "oauth_link"]
    <3>1. q \in I!Request /\ q.pc = "oauth_link" /\ q.user = joining[r].user
      BY <1>0 DEF I!Request, I!PCs
    <3>2. joining' = [joining EXCEPT ![r] = q]
      BY <2>3
    <3>3. I!Accounts' = I!Accounts \cup {joining[r].user}
      BY <2>1, <2>3, CreateUser, ZenonT(30) DEF I!NewUser
    <3> HIDE DEF q
    <3>4. QED
      BY <2>1, <3>1, <3>2, <3>3, HeldMove DEF Creating
  <2>4. QED
    BY <1>3, <2>2, <2>3 DEF I!OAuthCreate
<1>4. CASE I!OAuthLink(r) \/ I!Link(r)
  <2>1. I!Return(r) /\ I!Accounts' = I!Accounts
    BY <1>4, <1>a, InsertLinkStep
  <2>2. \A x \in Externals : links'[x] = links[x] \/ \E u \in I!Accounts : links'[x] = {u}
    BY <1>0, <1>4, InsertLinkStep
  <2>3. QED
    BY <2>1, <2>2, HeldReturn
<1>5. CASE I!StoreError(r)
  BY <1>a, <1>5, HeldReturn DEF I!StoreError
<1>6. QED
  BY <1>1, <1>2, <1>3, <1>4, <1>5 DEF I!Continue

\* Held is inductive over a store with the UNIQUE constraints.
LEMMA HeldStep ==
  ASSUME Backend # "memory", Inv, Held, [Next]_vars
  PROVE  Held'
<1>1. CASE UNCHANGED <<links, joining>> /\ I!Accounts' = I!Accounts
  BY <1>1 DEF Held
<1>2. ASSUME NEW r \in Requests, JoinArrives(r) \/ JoinStep(r)
      PROVE  Held'
  BY <1>2, HeldArrives, HeldContinues DEF JoinArrives, JoinStep
<1>3. CASE UNCHANGED vars \/ Tick
  BY <1>1, <1>3 DEF vars, identityVars, Tick, L!Tick, I!Accounts
<1>4. ASSUME NEW r \in Requests, LinkArrives(r) \/ LinkStep(r)
      PROVE  Held'
  <2>1. UNCHANGED <<links, joining>>
    BY <1>4 DEF LinkArrives, LinkStep, identityVars
  <2>2. CASE UNCHANGED users
    BY <1>1, <2>1, <2>2 DEF I!Accounts
  <2>3. CASE L!ConfirmUpdate(r)
    <3>1. /\ tokens[linking[r].tid].user \in I!Accounts
          /\ tokens[linking[r].tid].to \in Emails
      BY <2>3, TokenOf DEF L!ConfirmUpdate, L!At, Redeeming
    <3>2. \/ UNCHANGED users
          \/ L!UpdateEmail(tokens[linking[r].tid].user, tokens[linking[r].tid].to)
      BY <2>3 DEF L!ConfirmUpdate
    <3>3. I!Accounts' = I!Accounts
      BY <3>1, <3>2, UpdateEmailEffect DEF I!Accounts
    <3>4. QED
      BY <1>1, <2>1, <3>3
  <2>4. QED
    BY <1>4, <2>2, <2>3, LinkArriveStep
    DEF LinkArrives, LinkStep, L!Continue, L!StoreError, L!MarkUsedError, L!MagicCreate,
        L!ChangeCreate, L!CreateToken, L!MagicMarkUsed, L!MagicLogin, L!ConfirmMarkUsed
<1>5. QED
  BY <1>2, <1>3, <1>4 DEF Next

\* How the address book follows the tables.
LEMMA BookView ==
  ASSUME Inv
  PROVE  /\ \A u \in Uids : EmailOf(u) = None <=> u \notin I!Accounts
         /\ \A u \in I!Accounts : EmailOf(u) = users[u].email
         /\ \A x \in Externals : links[x] = {} => OwnerOf(x) = None
         /\ \A x \in Externals, u \in Uids : links[x] = {u} => OwnerOf(x) = u
<1>1. \A u \in I!Accounts : u \in Uids /\ users[u] \in I!User /\ users[u] # None
  BY DEF I!Accounts, Inv, TypeOK, I!TypeOK
<1>2. \A u \in I!Accounts : EmailOf(u) = users[u].email /\ EmailOf(u) # None
  BY <1>1, NoneAssumption DEF EmailOf, I!User
<1>3. \A u \in Uids : EmailOf(u) = None <=> u \notin I!Accounts
  BY <1>2 DEF EmailOf, I!Accounts
<1>4. \A x \in Externals : links[x] = {} => OwnerOf(x) = None
  BY DEF OwnerOf
<1>5. ASSUME NEW x \in Externals, NEW u \in Uids, links[x] = {u}
      PROVE  OwnerOf(x) = u
  <2>1. \A v : links[x] = {v} => v = u
    BY <1>5
  <2>2. QED
    BY <1>5, <2>1 DEF OwnerOf
<1>6. QED
  BY <1>2, <1>3, <1>4, <1>5

\* Every step of a request is a step of the address book, or none.
LEMMA BookStep ==
  ASSUME Backend # "memory", Inv, Inv', Held, [Next]_vars
  PROVE  [Book!Next]_(Book!vars)
<1> DEFINE address == [u \in Uids |-> EmailOf(u)]
           owner == [x \in Externals |-> OwnerOf(x)]
<1>0. users \in [Uids -> I!User \cup {None}] /\ links \in [Externals -> SUBSET Uids]
  BY DEF Inv, TypeOK, I!TypeOK
<1>a. UNCHANGED users => address' = address
  BY DEF EmailOf
<1>b. UNCHANGED links => owner' = owner
  BY DEF OwnerOf
<1>1. CASE UNCHANGED <<users, links>>
  BY <1>1, <1>a, <1>b DEF Book!vars
<1>2. ASSUME NEW u \in Uids, NEW e \in Emails, NEW b \in BOOLEAN, I!CreateAllowed(e),
             \E r \in Requests : joining[r].pc \in Creating /\ joining[r].user = u,
             users' = [users EXCEPT ![u] = [email |-> e, password |-> b]], UNCHANGED links
      PROVE  Book!Open(u, e)
  <2>1. u \notin I!Accounts /\ address[u] = None
    BY <1>2, BookView DEF Held
  <2>2. \A v \in Uids \ {u} : address[v] # e
    <3>1. \A v \in I!Accounts : users[v].email # e
      BY <1>2 DEF I!CreateAllowed, I!GetByEmail
    <3>2. e # None
      BY NoneAssumption
    <3>3. QED
      BY <3>1, <3>2, BookView
  <2>3. /\ users'[u] = [email |-> e, password |-> b] /\ users'[u].email = e
        /\ u \in I!Accounts' /\ \A v \in Uids \ {u} : users'[v] = users[v]
    <3>1. users' = [users EXCEPT ![u] = [email |-> e, password |-> b]]
      BY <1>2
    <3>2. I!Accounts' = I!Accounts \cup {u} /\ u \in I!Accounts'
      BY <3>1, CreateUser
    <3>3. QED
      BY <3>1, <3>2, CreateUser
  <2>4. users'[u] # None
    BY <2>3 DEF I!Accounts
  <2>5. EmailOf(u)' = e /\ \A v \in Uids \ {u} : EmailOf(v)' = EmailOf(v)
    BY <2>3, <2>4 DEF EmailOf
  <2>6. address' = [address EXCEPT ![u] = e]
    BY <2>5
  <2> HIDE DEF address, owner
  <2>7. QED
    BY <1>2, <1>b, <2>1, <2>2, <2>6 DEF Book!Open, Book!Opened, Book!Free, address, owner
<1>3. ASSUME NEW u \in I!Accounts, NEW e \in Emails, L!EmailAllowed(u, e),
             L!UpdateEmail(u, e), UNCHANGED links
      PROVE  Book!Move(u, e)
  <2>1. u \in Uids /\ address[u] # None
    BY BookView DEF I!Accounts
  <2>2. \A v \in Uids \ {u} : address[v] # e
    <3>1. \A v \in I!Accounts \ {u} : users[v].email # e
      BY <1>3 DEF L!EmailAllowed, L!Accounts, I!Accounts
    <3>2. e # None
      BY NoneAssumption
    <3>3. QED
      BY <3>1, <3>2, BookView
  <2>3. /\ users'[u].email = e /\ I!Accounts' = I!Accounts
        /\ \A v \in Uids \ {u} : users'[v] = users[v]
    BY <1>3, UpdateEmailEffect
  <2>4. users'[u] # None
    BY <2>3 DEF I!Accounts
  <2>5. EmailOf(u)' = e /\ \A v \in Uids \ {u} : EmailOf(v)' = EmailOf(v)
    BY <2>3, <2>4 DEF EmailOf
  <2>6. address' = [address EXCEPT ![u] = e]
    BY <2>5
  <2> HIDE DEF address, owner
  <2>7. QED
    BY <1>3, <1>b, <2>1, <2>2, <2>6 DEF Book!Move, Book!Opened, Book!Free, address, owner
<1>4. ASSUME NEW x \in Externals, NEW u \in I!Accounts, links[x] = {},
             links' = [links EXCEPT ![x] = {u}], UNCHANGED users
      PROVE  Book!Adopt(x, u)
  <2>1. u \in Uids /\ address[u] # None /\ owner[x] = None
    BY <1>4, BookView DEF I!Accounts
  <2>2. links'[x] = {u} /\ \A y \in Externals \ {x} : links'[y] = links[y]
    BY <1>0, <1>4
  <2>3. \A y \in Externals \ {x} : OwnerOf(y)' = OwnerOf(y)
    BY <2>2 DEF OwnerOf
  <2>4. OwnerOf(x)' = u
    <3>1. \A v : links'[x] = {v} => v = u
      BY <2>2
    <3>2. QED
      BY <2>1, <2>2, <3>1 DEF OwnerOf
  <2>5. owner' = [owner EXCEPT ![x] = u]
    BY <2>3, <2>4
  <2> HIDE DEF address, owner
  <2>6. QED
    BY <1>4, <1>a, <2>1, <2>5 DEF Book!Adopt, Book!Opened, address, owner
<1>5. ASSUME users' # users
      PROVE  UNCHANGED links
  BY <1>5, JoinArriveStep, LinkArriveStep
  DEF Next, vars, identityVars, Tick, JoinArrives, LinkArrives, JoinStep, LinkStep,
      I!Continue, I!StoreError, I!SignUpCreate, I!OAuthEmailLookup, I!OAuthCreate, I!OAuthLink,
      I!Link, I!InsertLink, L!Tick
<1>6. ASSUME UNCHANGED users, links' # links
      PROVE  \E x \in Externals, u \in I!Accounts :
               links[x] = {} /\ links' = [links EXCEPT ![x] = {u}]
  <2>1. PICK r \in Requests : I!OAuthLink(r) \/ I!Link(r)
    BY <1>6, JoinArriveStep
    DEF Next, vars, identityVars, Tick, JoinArrives, LinkArrives, JoinStep, LinkStep,
        I!Continue, I!StoreError, I!SignUpCreate, I!OAuthEmailLookup, I!OAuthCreate, L!Tick
  <2>2. QED
    BY <1>6, <2>1, InsertLinkStep
<1>7. ASSUME users' # users
      PROVE  \E u \in Uids, e \in Emails : Book!Open(u, e) \/ Book!Move(u, e)
  <2>1. I!Accounts \subseteq Uids
    BY DEF I!Accounts
  <2>2. QED
    BY <1>2, <1>3, <1>5, <1>7, <2>1, UsersStep
<1>8. ASSUME UNCHANGED users, links' # links
      PROVE  \E x \in Externals, u \in Uids : Book!Adopt(x, u)
  BY <1>4, <1>6, <1>8 DEF I!Accounts
<1> HIDE DEF address, owner
<1>9. QED
  BY <1>1, <1>7, <1>8 DEF Book!Next

\* Over a store with the UNIQUE constraints, whatever races over the two tables
\* keeps an address book: every account is opened once, at an address of its
\* own, and an identity belongs to one existing account for good.
THEOREM AlwaysKeepsAddressBook ==
  ASSUME Backend # "memory"
  PROVE  Spec => KeepsAddressBook
<1>1. Init => Held /\ Book!Init
  <2> SUFFICES ASSUME Init PROVE Held /\ Book!Init
    OBVIOUS
  <2>1. /\ users = [u \in Uids |-> None] /\ links = [x \in Externals |-> {}]
        /\ joining = [r \in Requests |-> I!Idle]
    BY DEF Init, I!Init
  <2>2. Held
    BY <2>1, IdleRequests DEF Held, Creating, Adopting
  <2>3. /\ \A u \in Uids : EmailOf(u) = None
        /\ \A x \in Externals : OwnerOf(x) = None
    BY <2>1 DEF EmailOf, OwnerOf
  <2>4. Book!Init
    BY <2>3 DEF Book!Init
  <2>5. QED
    BY <2>2, <2>4
<1>2. Inv /\ Held /\ [Next]_vars => Held'
  BY HeldStep
<1>3. Inv /\ Inv' /\ Held /\ [Next]_vars => [Book!Next]_(Book!vars)
  BY BookStep
<1>4. QED
  BY <1>1, <1>2, <1>3, AlwaysInv, PTL DEF Spec, KeepsAddressBook, Book!Spec

=============================================================================
