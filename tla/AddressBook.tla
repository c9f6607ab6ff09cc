----------------------------- MODULE AddressBook -----------------------------
(***************************************************************************)
(* What the users table and the identities promise the rest of the system, *)
(* whatever requests race over them: an address book.  Every entry has one *)
(* address, no address has two entries, and an external identity, once it  *)
(* belongs to an entry, belongs to that entry for good.                    *)
(***************************************************************************)
CONSTANTS Uids, Emails, Externals, None

VARIABLES
  address,   \* address[u]: where account u is reached; None before it is opened
  owner      \* owner[x]: the account that identity x logs in, or None

vars == <<address, owner>>

Opened == {u \in Uids : address[u] # None}

\* May account u have address e?
Free(u, e) == \A v \in Uids \ {u} : address[v] # e

Init ==
  /\ address = [u \in Uids |-> None]
  /\ owner = [x \in Externals |-> None]

Open(u, e) ==
  /\ u \notin Opened
  /\ Free(u, e)
  /\ address' = [address EXCEPT ![u] = e]
  /\ UNCHANGED owner

Move(u, e) ==
  /\ u \in Opened
  /\ Free(u, e)
  /\ address' = [address EXCEPT ![u] = e]
  /\ UNCHANGED owner

Adopt(x, u) ==
  /\ owner[x] = None
  /\ u \in Opened
  /\ owner' = [owner EXCEPT ![x] = u]
  /\ UNCHANGED address

Next ==
  \/ \E u \in Uids, e \in Emails : Open(u, e) \/ Move(u, e)
  \/ \E x \in Externals, u \in Uids : Adopt(x, u)

Spec == Init /\ [][Next]_vars

=============================================================================
