----------------------------- MODULE Identities -----------------------------
(***************************************************************************)
(* How accounts come into being and get their external identities: SignUp, *)
(* LoginWithOAuth and LinkOAuthIdentity over the UserStore and OAuthStore. *)
(*                                                                         *)
(* All three look first and insert later, each store call one step of its  *)
(* goroutine.  The SQL schemas back the lookups with UNIQUE (email) and    *)
(* UNIQUE (provider, external_id); the memory stores have neither.  An     *)
(* external identity stands for a pair (provider, external id).            *)
(***************************************************************************)
EXTENDS FiniteSets

CONSTANTS Uids,       \* user ids; the bound on accounts created
          Emails,     \* addresses
          Externals,  \* external identities
          Requests,   \* goroutines serving requests
          Backend,    \* which stores the engine was configured with
          StoreFails, \* may a store call return an error?
          None        \* the absent user, id, address or identity

User == [email : Emails, password : BOOLEAN]

VARIABLES
  users,     \* the users table, by id
  links,     \* links[x]: the users oauth_identities has a row for, with x
  req,       \* req[r]: where request r is, and what it holds
  lost       \* history: accounts whose first identity could not be linked

vars == <<users, links, req, lost>>

PCs == {"idle", "signup_create", "oauth_email", "oauth_create", "oauth_link",
        "link"}

Request == [pc : PCs, user : Uids \cup {None}, email : Emails \cup {None},
            external : Externals \cup {None}]

Idle == [pc |-> "idle", user |-> None, email |-> None, external |-> None]

TypeOK ==
  /\ users \in [Uids -> User \cup {None}]
  /\ links \in [Externals -> SUBSET Uids]
  /\ req \in [Requests -> Request]
  /\ lost \subseteq Uids

Init ==
  /\ users = [u \in Uids |-> None]
  /\ links = [x \in Externals |-> {}]
  /\ req = [r \in Requests |-> Idle]
  /\ lost = {}

At(r, pc) == req[r].pc = pc
Return(r) == req' = [req EXCEPT ![r] = Idle]

Accounts == {u \in Uids : users[u] # None}
GetByEmail(e) == {u \in Accounts : users[u].email = e}

\* The identities that GetByProviderID finds.
Linked == {x \in Externals : links[x] # {}}

\* ids.New(): an id that no row has and no other request holds.
FreshUids == Uids \ (Accounts \cup {req[r].user : r \in Requests})

-----------------------------------------------------------------------------
(* The constraints of the schema *)

\* The row that users.Create inserts for request r.
NewUser(r, password) == [email |-> req[r].email, password |-> password]

\* Mutant: the column is not UNIQUE.
CreateUnchecked(e) == TRUE

\* May users.Create insert a row with this email?
CreateAllowed(e) == Backend = "memory" \/ GetByEmail(e) = {}

\* Mutant: the pair is not UNIQUE.
LinkUnchecked(x) == TRUE

\* May oauth.Link insert a row with this identity?
LinkAllowed(x) == Backend = "memory" \/ x \notin Linked

-----------------------------------------------------------------------------
(* SignUp *)

\* GetByEmail; a taken address is ErrUserExists, and an error of the store
\* passes for a free one.  A password that the policy or the breach check turns
\* down ends the request too.
SignUp(r, e) ==
  /\ At(r, "idle")
  /\ GetByEmail(e) = {} \/ StoreFails
  /\ \E u \in FreshUids :
       req' = [req EXCEPT ![r] = [Idle EXCEPT !.pc = "signup_create",
                                              !.user = u, !.email = e]]
  /\ UNCHANGED <<users, links, lost>>

SignUpCreate(r) ==
  /\ At(r, "signup_create")
  /\ users' = IF CreateAllowed(req[r].email)
              THEN [users EXCEPT ![req[r].user] =
                      NewUser(r, TRUE)]
              ELSE users
  /\ Return(r)
  /\ UNCHANGED <<links, lost>>

-----------------------------------------------------------------------------
(* LoginWithOAuth *)

\* GetByProviderID finds nothing; an identity that is linked logs in its user
\* and writes neither table.
LoginWithOAuth(r, x, e) ==
  /\ At(r, "idle")
  /\ x \notin Linked
  /\ req' = [req EXCEPT ![r] = [Idle EXCEPT !.pc = "oauth_email",
                                            !.email = e, !.external = x]]
  /\ UNCHANGED <<users, links, lost>>

\* GetByEmail; an account with the address is ErrOAuthEmailConflict.
OAuthEmailLookup(r) ==
  /\ At(r, "oauth_email")
  /\ \/ /\ GetByEmail(req[r].email) # {}
        /\ Return(r)
     \/ /\ GetByEmail(req[r].email) = {}
        /\ \E u \in FreshUids :
             req' = [req EXCEPT ![r].pc = "oauth_create", ![r].user = u]
  /\ UNCHANGED <<users, links, lost>>

\* Mutant: the identity is not linked to the new account.
OAuthCreateOnly(r) ==
  /\ At(r, "oauth_create")
  /\ users' = IF CreateAllowed(req[r].email)
              THEN [users EXCEPT ![req[r].user] =
                      NewUser(r, FALSE)]
              ELSE users
  /\ Return(r)
  /\ UNCHANGED <<links, lost>>

\* The new account has no password hash.
OAuthCreate(r) ==
  /\ At(r, "oauth_create")
  /\ \/ /\ CreateAllowed(req[r].email)
        /\ users' = [users EXCEPT ![req[r].user] =
                       NewUser(r, FALSE)]
        /\ req' = [req EXCEPT ![r].pc = "oauth_link"]
     \/ /\ ~CreateAllowed(req[r].email)
        /\ Return(r)
        /\ UNCHANGED users
  /\ UNCHANGED <<links, lost>>

\* oauth.Link, of the new account or of the one LinkOAuthIdentity was called
\* for.
InsertLink(r) ==
  /\ links' = IF LinkAllowed(req[r].external)
              THEN [links EXCEPT ![req[r].external] = @ \cup {req[r].user}]
              ELSE links
  /\ Return(r)
  /\ UNCHANGED users

OAuthLink(r) ==
  /\ At(r, "oauth_link")
  /\ InsertLink(r)
  /\ lost' = IF LinkAllowed(req[r].external) THEN lost ELSE lost \cup {req[r].user}

-----------------------------------------------------------------------------
(* LinkOAuthIdentity *)

\* GetByID and GetByProviderID; an identity that is linked to this user is
\* done, one that is linked to another is ErrOAuthIdentityAlreadyLinked.
LinkOAuthIdentity(r, u, x) ==
  /\ At(r, "idle")
  /\ u \in Accounts
  /\ x \notin Linked
  /\ req' = [req EXCEPT ![r] = [Idle EXCEPT !.pc = "link", !.user = u,
                                            !.external = x]]
  /\ UNCHANGED <<users, links, lost>>

Link(r) == At(r, "link") /\ InsertLink(r) /\ UNCHANGED lost

\* A store call fails and the handler returns its error: a user that was
\* created before it stays.
StoreError(r) ==
  /\ StoreFails
  /\ ~At(r, "idle")
  /\ lost' = IF At(r, "oauth_link") THEN lost \cup {req[r].user} ELSE lost
  /\ Return(r)
  /\ UNCHANGED <<users, links>>

-----------------------------------------------------------------------------

Arrive(r) ==
  \/ \E e \in Emails : SignUp(r, e)
  \/ \E x \in Externals, e \in Emails : LoginWithOAuth(r, x, e)
  \/ \E u \in Uids, x \in Externals : LinkOAuthIdentity(r, u, x)

Continue(r) ==
  \/ SignUpCreate(r)
  \/ OAuthEmailLookup(r)
  \/ OAuthCreate(r)
  \/ OAuthLink(r)
  \/ Link(r)

=============================================================================
