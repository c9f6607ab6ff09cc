------------------------------ MODULE Directory -----------------------------
(***************************************************************************)
(* The users table and everybody who writes an address or an identity into *)
(* it: SignUp, LoginWithOAuth and LinkOAuthIdentity (module Identities),   *)
(* magic links and email changes (module EmailLinks).  One goroutine       *)
(* serves one request of either kind at a time.                            *)
(***************************************************************************)
EXTENDS Integers, FiniteSets

CONSTANTS Uids, Emails, Externals, Tids, Requests, MagicLinkTTL,
          ChangeEmailTokenTTL, MaxTime, MaxUnmarked, Backend, StoreFails, None

ASSUME TTLAssumption == MagicLinkTTL \in Nat /\ ChangeEmailTokenTTL \in Nat
ASSUME BoundsAssumption == MaxTime \in Nat /\ MaxUnmarked \in Nat
ASSUME BackendAssumption == Backend \in {"postgres", "sqlite", "memory"}
ASSUME StoreFailsAssumption == StoreFails \in BOOLEAN

VARIABLES users, links, joining, lost,
          tokens, mailed, now, linking, redeemed, unmarked

I == INSTANCE Identities WITH req <- joining
L == INSTANCE EmailLinks WITH req <- linking

ASSUME NoneAssumption ==
  None \notin Uids \cup Emails \cup Externals \cup Tids \cup I!User \cup L!Token

identityVars == <<links, joining, lost>>
linkVars == <<tokens, mailed, now, linking, redeemed, unmarked>>
vars == <<users, identityVars, linkVars>>

Init == I!Init /\ L!Init

JoinArrives(r) == L!At(r, "idle") /\ I!Arrive(r) /\ UNCHANGED linkVars
LinkArrives(r) == I!At(r, "idle") /\ L!Arrive(r) /\ UNCHANGED identityVars

JoinStep(r) == (I!Continue(r) \/ I!StoreError(r)) /\ UNCHANGED linkVars
LinkStep(r) == (L!Continue(r) \/ L!StoreError(r) \/ L!MarkUsedError(r))
                 /\ UNCHANGED identityVars

Tick == L!Tick /\ UNCHANGED identityVars

Next ==
  \/ Tick
  \/ \E r \in Requests : JoinArrives(r) \/ LinkArrives(r) \/ JoinStep(r) \/ LinkStep(r)

Spec == Init /\ [][Next]_vars

-----------------------------------------------------------------------------
(* Properties *)

\* No two accounts have one address, however they came by it: a signup, a first
\* OAuth login and a confirmed email change all look whether the address is free
\* in one call and take it in another, the last of them up to an hour later.
EmailsUnique ==
  \A u, v \in I!Accounts : users[u].email = users[v].email => u = v

\* A magic link logs in once, even if it is clicked twice at the same time: what
\* VerificationStore.MarkUsed and CompleteMagicLink say of themselves ("single-use
\* even under a race").  CompleteMagicLink ignores what MarkUsed answers.
MagicLinkSingleUse ==
  \A t \in Tids :
    tokens[t] # None /\ tokens[t].purpose = "magic_link" => redeemed[t] <= 1

\* What the code does instead, for links of both purposes: a link that was marked
\* used stops working, so it is redeemed at most once for every request that had
\* read it before that, and once for every MarkUsed that failed
\* (CompleteMagicLink, ConfirmEmailChange).
RedemptionsBounded ==
  \A t \in Tids : redeemed[t] <= Cardinality(Requests) + unmarked[t]

\* An external identity that is linked to a user stays linked to that user and
\* to nobody else ("never re-points an existing link", LinkOAuthIdentity).
LinkNeverRepointed ==
  [][\A x \in Externals : links[x] # {} => links'[x] = links[x]]_vars

\* The address book that the two tables keep.
EmailOf(u) == IF users[u] = None THEN None ELSE users[u].email
OwnerOf(x) ==
  IF \E u \in Uids : links[x] = {u} THEN CHOOSE u \in Uids : links[x] = {u} ELSE None

Book == INSTANCE AddressBook WITH address <- [u \in Uids |-> EmailOf(u)],
                                  owner <- [x \in Externals |-> OwnerOf(x)]

\* Signups, first OAuth logins, links of identities and email changes, each of
\* which looks in one store call and writes in another, together behave as an
\* address book whose entries are opened, moved and given identities at once:
\* an id is opened once, for a free address; a change goes to a free address;
\* an identity goes to an account that exists, and to no second one
\* (SignUp, LoginWithOAuth, LinkOAuthIdentity, ConfirmEmailChange).
KeepsAddressBook == Book!Spec

\* An account that LoginWithOAuth created without a password has its identity,
\* or is about to get it; unless the store failed between the two inserts, or
\* another request linked the identity in between, and the account was left
\* with neither.
PasswordlessHasIdentity ==
  \A u \in I!Accounts \ lost :
    ~users[u].password =>
      \/ \E x \in Externals : u \in links[x]
      \/ \E r \in Requests : I!At(r, "oauth_link") /\ joining[r].user = u

=============================================================================
