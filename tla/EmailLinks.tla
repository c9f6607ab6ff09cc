----------------------------- MODULE EmailLinks -----------------------------
(***************************************************************************)
(* One-time links sent by email: passwordless login (auth/magiclink.go)    *)
(* and confirmation of a new address (auth/email.go), over the             *)
(* VerificationStore and the users table, which other modules write too.   *)
(*                                                                         *)
(* Every store call is one step of its goroutine.  The two handlers that   *)
(* redeem a link both read the token first and mark it used later: the     *)
(* login marks it before it goes on, the email change after it was made.   *)
(***************************************************************************)
EXTENDS Integers, FiniteSets

CONSTANTS Uids,          \* user ids
          Emails,        \* addresses
          Tids,          \* verification token ids; the bound on links sent
          Requests,      \* goroutines serving requests
          MagicLinkTTL, ChangeEmailTokenTTL,  \* lifetimes, in clock ticks
          MaxTime,       \* bound on the clock
          MaxUnmarked,   \* bound on failed MarkUsed calls per link
          Backend,       \* which stores the engine was configured with
          StoreFails,    \* may a store call return an error?
          None           \* the absent token, user, id or address

Token == [user    : Uids,
          purpose : {"magic_link", "email_change"},
          to      : Emails,    \* where it was mailed; new_email of a change
          expires : Nat,
          used    : BOOLEAN]

VARIABLES
  users,    \* the users table, by id
  tokens,   \* the verification_tokens table
  mailed,   \* tokens whose link was delivered
  now,      \* the clock
  req,      \* req[r]: where request r is, and what it read
  redeemed, \* history: how often each link logged in or changed an email
  unmarked  \* history: how often MarkUsed failed for it

vars == <<users, tokens, mailed, now, req, redeemed, unmarked>>

PCs == {"idle", "magic_create", "change_create", "magic_used", "magic_login",
        "change_email", "change_used"}

Request == [pc : PCs, user : Uids \cup {None}, to : Emails \cup {None},
            tid : Tids \cup {None}]

Idle == [pc |-> "idle", user |-> None, to |-> None, tid |-> None]

TypeOK ==
  /\ tokens \in [Tids -> Token \cup {None}]
  /\ mailed \subseteq {t \in Tids : tokens[t] # None}
  /\ now \in Nat
  /\ req \in [Requests -> Request]
  /\ redeemed \in [Tids -> Nat]
  /\ unmarked \in [Tids -> 0..(MaxUnmarked + Cardinality(Requests))]

Init ==
  /\ tokens = [t \in Tids |-> None]
  /\ mailed = {}
  /\ now = 0
  /\ req = [r \in Requests |-> Idle]
  /\ redeemed = [t \in Tids |-> 0]
  /\ unmarked = [t \in Tids |-> 0]

At(r, pc) == req[r].pc = pc
Goto(r, pc) == req' = [req EXCEPT ![r].pc = pc]
Return(r) == req' = [req EXCEPT ![r] = Idle]

FreshTids == {t \in Tids : tokens[t] = None /\ \A r \in Requests : req[r].tid # t}

Accounts == {u \in Uids : users[u] # None}

Taken(e) == \E u \in Accounts : users[u].email = e

-----------------------------------------------------------------------------
(* Sending a link *)

\* RequestMagicLink: GetByEmail; an unknown address returns nil and sends
\* nothing.
RequestMagicLink(r, u) ==
  /\ At(r, "idle")
  /\ u \in Accounts
  /\ \E t \in FreshTids :
       req' = [req EXCEPT ![r] = [pc |-> "magic_create", user |-> u,
                                  to |-> users[u].email, tid |-> t]]
  /\ UNCHANGED <<users, tokens, mailed, now, redeemed, unmarked>>

\* RequestEmailChange: the new address must be free now; an error of the store
\* passes for a free one.
RequestEmailChange(r, u, e) ==
  /\ At(r, "idle")
  /\ u \in Accounts
  /\ ~Taken(e) \/ StoreFails
  /\ \E t \in FreshTids :
       req' = [req EXCEPT ![r] = [pc |-> "change_create", user |-> u,
                                  to |-> e, tid |-> t]]
  /\ UNCHANGED <<users, tokens, mailed, now, redeemed, unmarked>>

\* verifications.Create, then the sender, whose error is returned: the row
\* stays and nobody has its link.
CreateToken(r, purpose, ttl) ==
  /\ tokens' = [tokens EXCEPT ![req[r].tid] =
                  [user |-> req[r].user, purpose |-> purpose, to |-> req[r].to,
                   expires |-> now + ttl, used |-> FALSE]]
  /\ mailed' \in {mailed, mailed \cup {req[r].tid}}
  /\ Return(r)
  /\ UNCHANGED <<users, now, redeemed, unmarked>>

MagicCreate(r) ==
  /\ At(r, "magic_create")
  /\ CreateToken(r, "magic_link", MagicLinkTTL)

ChangeCreate(r) ==
  /\ At(r, "change_create")
  /\ CreateToken(r, "email_change", ChangeEmailTokenTTL)

-----------------------------------------------------------------------------
(* Redeeming a link *)

\* GetByTokenHash and the checks; a token that fails one changes nothing.
Redeemable(t, purpose) ==
  /\ t \in mailed
  /\ tokens[t].purpose = purpose
  /\ ~tokens[t].used
  /\ now <= tokens[t].expires

CompleteMagicLink(r, t) ==
  /\ At(r, "idle")
  /\ Redeemable(t, "magic_link")
  /\ unmarked[t] < MaxUnmarked
  /\ req' = [req EXCEPT ![r] = [Idle EXCEPT !.pc = "magic_used", !.tid = t]]
  /\ UNCHANGED <<users, tokens, mailed, now, redeemed, unmarked>>

ConfirmEmailChange(r, t) ==
  /\ At(r, "idle")
  /\ Redeemable(t, "email_change")
  /\ unmarked[t] < MaxUnmarked
  /\ req' = [req EXCEPT ![r] = [Idle EXCEPT !.pc = "change_email", !.tid = t]]
  /\ UNCHANGED <<users, tokens, mailed, now, redeemed, unmarked>>

\* Mutant: the token is never marked.
MarkUsedForgets(t) == UNCHANGED tokens

\* A token that is used already is ErrNotFound, which both callers only log.
MarkUsed(t) == tokens' = [tokens EXCEPT ![t].used = TRUE]

MagicMarkUsed(r) ==
  /\ At(r, "magic_used")
  /\ MarkUsed(req[r].tid)
  /\ Goto(r, "magic_login")
  /\ UNCHANGED <<users, mailed, now, redeemed, unmarked>>

\* completePrimaryAuth for the token's user.
MagicLogin(r) ==
  /\ At(r, "magic_login")
  /\ redeemed' = [redeemed EXCEPT ![req[r].tid] = @ + 1]
  /\ Return(r)
  /\ UNCHANGED <<users, tokens, mailed, now, unmarked>>

\* Mutant: the email column has no UNIQUE constraint.
UniqueIgnored(u, e) == TRUE

\* Does UPDATE users SET email satisfy the UNIQUE constraint?
EmailAllowed(u, e) ==
  \/ Backend = "memory"
  \/ \A v \in Accounts \ {u} : users[v].email # e

UpdateEmail(u, e) == users' = [users EXCEPT ![u].email = e]

ConfirmUpdate(r) ==
  /\ At(r, "change_email")
  /\ LET t == req[r].tid
         u == tokens[t].user
     IN  \/ /\ EmailAllowed(u, tokens[t].to)
            /\ UpdateEmail(u, tokens[t].to)
            /\ redeemed' = [redeemed EXCEPT ![t] = @ + 1]
            /\ Goto(r, "change_used")
         \/ /\ ~EmailAllowed(u, tokens[t].to)
            /\ Return(r)
            /\ UNCHANGED <<users, redeemed>>
  /\ UNCHANGED <<tokens, mailed, now, unmarked>>

ConfirmMarkUsed(r) ==
  /\ At(r, "change_used")
  /\ MarkUsed(req[r].tid)
  /\ Return(r)
  /\ UNCHANGED <<users, mailed, now, redeemed, unmarked>>

\* A store call fails and the handler returns its error.
StoreError(r) ==
  /\ StoreFails
  /\ req[r].pc \notin {"idle", "magic_used", "change_used"}
  /\ Return(r)
  /\ UNCHANGED <<users, tokens, mailed, now, redeemed, unmarked>>

\* An error of MarkUsed is only logged: the login goes on, and the email change
\* has been made.
MarkUsedError(r) ==
  /\ StoreFails
  /\ \/ At(r, "magic_used") /\ Goto(r, "magic_login")
     \/ At(r, "change_used") /\ Return(r)
  /\ unmarked' = [unmarked EXCEPT ![req[r].tid] = @ + 1]
  /\ UNCHANGED <<users, tokens, mailed, now, redeemed>>

Tick ==
  /\ now < MaxTime
  /\ now' = now + 1
  /\ UNCHANGED <<users, tokens, mailed, req, redeemed, unmarked>>

Arrive(r) ==
  \/ \E u \in Uids : RequestMagicLink(r, u)
  \/ \E u \in Uids, e \in Emails : RequestEmailChange(r, u, e)
  \/ \E t \in Tids : CompleteMagicLink(r, t)
  \/ \E t \in Tids : ConfirmEmailChange(r, t)

Continue(r) ==
  \/ MagicCreate(r)
  \/ ChangeCreate(r)
  \/ MagicMarkUsed(r)
  \/ MagicLogin(r)
  \/ ConfirmUpdate(r)
  \/ ConfirmMarkUsed(r)

=============================================================================
