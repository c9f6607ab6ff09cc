------------------------------ MODULE APIKeys ------------------------------
(***************************************************************************)
(* API keys: generation, authentication by a presented key, revocation,    *)
(* and what the deletion of their owner does to them.                      *)
(*                                                                         *)
(* A key, its hash and its id are one value: the key is 256 random bits.   *)
(* Name, scopes and prefix are stored and handed back, and decide nothing. *)
(***************************************************************************)
EXTENDS Integers

CONSTANTS Owners,        \* user ids
          Kids,          \* key ids; the bound on the keys generated
          KeyRequests,   \* goroutines serving requests
          KeyStores,     \* the stores the engine may be configured with
          TTLs,          \* lifetimes that callers ask for; 0 is no expiry
          Granularity,   \* apiKeyLastUsedGranularity
          MaxClock,      \* bound on the clock
          KeyStoreFails, \* may a store call return an error?
          Absent         \* the absent row, user, id or time

\* "sqlite_nofk" is SQLite with a DSN that does not turn foreign_keys on.
ASSUME KeyStoresAssumption ==
  KeyStores \subseteq {"postgres", "sqlite", "sqlite_nofk", "memory"}
ASSUME TTLsAssumption == TTLs \subseteq Nat
ASSUME TimesAssumption == Granularity \in Nat \ {0} /\ MaxClock \in Nat
ASSUME KeyStoreFailsAssumption == KeyStoreFails \in BOOLEAN

Time == 0..MaxClock

Key == [user : Owners, expires : Nat \cup {Absent},
        lastUsed : Time \cup {Absent}, revoked : BOOLEAN]

ASSUME AbsentAssumption == Absent \notin Owners \cup Kids \cup Nat \cup Key

VARIABLES
  keyStore,  \* which stores the engine was configured with
  alive,     \* the owners whose account exists
  keys,      \* keys[k]: the api_keys row, or Absent
  clock,     \* the time
  keyReq,    \* keyReq[r]: where request r is, and what it holds
  stopped,   \* history: keys that someone was told are revoked, or whose
             \* owner was told that the account is deleted; where there are
             \* foreign keys, also keys that were then being made for it
  lastGrant, \* history: lastGrant[k]: when k was last accepted
  untouched, \* history: keys whose last TouchLastUsed failed
  slowest    \* history: the longest that a TouchLastUsed took to arrive

keyVars == <<keyStore, alive, keys, clock, keyReq, stopped, lastGrant, untouched,
             slowest>>

KeyRequest == [pc : {"idle", "create", "touch"}, key : Kids \cup {Absent},
               user : Owners \cup {Absent}, expires : Nat \cup {Absent},
               at : Time \cup {Absent}]

KeyIdle == [pc |-> "idle", key |-> Absent, user |-> Absent,
            expires |-> Absent, at |-> Absent]

KeysTypeOK ==
  /\ keyStore \in KeyStores
  /\ alive \subseteq Owners
  /\ keys \in [Kids -> Key \cup {Absent}]
  /\ clock \in Time
  /\ keyReq \in [KeyRequests -> KeyRequest]
  /\ stopped \subseteq Kids
  /\ lastGrant \in [Kids -> Time \cup {Absent}]
  /\ untouched \subseteq Kids
  /\ slowest \in Time

KeysInit ==
  /\ keyStore \in KeyStores
  /\ alive = Owners
  /\ keys = [k \in Kids |-> Absent]
  /\ clock = 0
  /\ keyReq = [r \in KeyRequests |-> KeyIdle]
  /\ stopped = {}
  /\ lastGrant = [k \in Kids |-> Absent]
  /\ untouched = {}
  /\ slowest = 0

KeyAt(r, pc) == keyReq[r].pc = pc
KeyReturn(r) == keyReq' = [keyReq EXCEPT ![r] = KeyIdle]

-----------------------------------------------------------------------------
(* GenerateAPIKey *)

\* The keys that GetByKeyHash finds.
StoredKeys == {k \in Kids : keys[k] # Absent}

FreshKids ==
  Kids \ (stopped \cup StoredKeys \cup {keyReq[r].key : r \in KeyRequests})

\* Up to keys.Create: the user exists, and the expiry is computed.  A user
\* that does not exist is an error.
GenerateAPIKey(r) ==
  /\ KeyAt(r, "idle")
  /\ \E u \in alive, k \in FreshKids, ttl \in TTLs :
       keyReq' = [keyReq EXCEPT ![r] =
                 [KeyIdle EXCEPT !.pc = "create", !.key = k, !.user = u,
                                 !.expires = IF ttl > 0 THEN clock + ttl
                                             ELSE Absent]]
  /\ UNCHANGED <<alive, keys, clock, stopped, lastGrant, untouched, slowest>>

\* Does the api_keys table have a foreign key that is enforced?
ForeignKeys == keyStore \in {"postgres", "sqlite"}

\* Mutant: no foreign key.
ReferencesNothing(u) == TRUE

\* Does the foreign key on user_id, if there is one, accept the row?
ReferencesUser(u) == ForeignKeys => u \in alive

\* The row that Create inserts; the expiry is the caller's.
NewKey(r) == [user |-> keyReq[r].user, expires |-> keyReq[r].expires,
              lastUsed |-> Absent, revoked |-> FALSE]

\* keys.Create.
Create(r) ==
  /\ KeyAt(r, "create")
  /\ keys' = IF ReferencesUser(keyReq[r].user)
             THEN [keys EXCEPT ![keyReq[r].key] = NewKey(r)]
             ELSE keys
  /\ KeyReturn(r)
  /\ UNCHANGED <<alive, clock, stopped, lastGrant, untouched, slowest>>

-----------------------------------------------------------------------------
(* AuthenticateAPIKey *)

Expired(key) == key.expires # Absent /\ clock >= key.expires

\* Neither revoked nor expired.
Usable(key) == ~key.revoked /\ ~Expired(key)

\* Mutant: the granularity itself is not stale yet.
StaleLater(lastUsed) == lastUsed = Absent \/ clock - lastUsed > Granularity

\* Is the last_used_at that was read old enough to be written again?
Stale(lastUsed) == lastUsed = Absent \/ clock - lastUsed >= Granularity

\* GetByKeyHash and the verdict on the row.  A key that is unknown, revoked or
\* expired is ErrInvalidAPIKey and changes nothing but the audit trail.
AuthenticateAPIKey(r, k) ==
  /\ KeyAt(r, "idle")
  /\ k \in StoredKeys
  /\ Usable(keys[k])
  /\ lastGrant' = [lastGrant EXCEPT ![k] = clock]
  /\ IF Stale(keys[k].lastUsed)
     THEN keyReq' = [keyReq EXCEPT ![r] =
                    [KeyIdle EXCEPT !.pc = "touch", !.key = k, !.at = clock]]
     ELSE UNCHANGED keyReq
  /\ UNCHANGED <<alive, keys, clock, stopped, untouched, slowest>>

\* Mutant: the row is written back as it was read.
TouchedStale(key, at) ==
  IF key = Absent THEN Absent
  ELSE [key EXCEPT !.lastUsed = at, !.revoked = FALSE]

\* UPDATE api_keys SET last_used_at WHERE id; no row is no error.
Touched(key, at) ==
  IF key = Absent THEN Absent ELSE [key EXCEPT !.lastUsed = at]

TouchLastUsed(r) ==
  LET k == keyReq[r].key
      delay == clock - keyReq[r].at
  IN /\ KeyAt(r, "touch")
     /\ keys' = [keys EXCEPT ![k] = Touched(@, keyReq[r].at)]
     /\ untouched' = untouched \ {k}
     /\ slowest' = IF delay > slowest THEN delay ELSE slowest
     /\ KeyReturn(r)
     /\ UNCHANGED <<alive, clock, stopped, lastGrant>>

\* The write fails: it is logged, and the caller is let in all the same.
TouchError(r) ==
  /\ KeyStoreFails
  /\ KeyAt(r, "touch")
  /\ untouched' = untouched \cup {keyReq[r].key}
  /\ KeyReturn(r)
  /\ UNCHANGED <<alive, keys, clock, stopped, lastGrant, slowest>>

-----------------------------------------------------------------------------

\* UPDATE ... WHERE id AND user_id AND revoked_at IS NULL: does it match?
Revocable(u, k) == k \in StoredKeys /\ keys[k].user = u /\ ~keys[k].revoked

\* Called by user u.  Any other key is ErrAPIKeyNotFound.
RevokeAPIKey(r, u, k) ==
  /\ KeyAt(r, "idle")
  /\ Revocable(u, k)
  /\ keys' = [keys EXCEPT ![k].revoked = TRUE]
  /\ stopped' = stopped \cup {k}
  /\ UNCHANGED <<alive, clock, keyReq, lastGrant, untouched, slowest>>

KeysOf(u) == {k \in StoredKeys : keys[k].user = u}

\* The keys that GenerateAPIKey has yet to store for u.
KeysFor(u) ==
  {keyReq[r].key :
     r \in {q \in KeyRequests : KeyAt(q, "create") /\ keyReq[q].user = u}}

\* The rows UserStore.Delete takes along: by ON DELETE CASCADE in Postgres, by
\* a DELETE of its own in SQLite.  The memory store leaves them.
Cascaded(u) == IF keyStore = "memory" THEN {} ELSE KeysOf(u)

\* users.Delete, the last step of DeleteAccount.
DeleteOwner(r, u) ==
  /\ KeyAt(r, "idle")
  /\ u \in alive
  /\ alive' = alive \ {u}
  /\ keys' = [k \in Kids |-> IF k \in Cascaded(u) THEN Absent ELSE keys[k]]
  /\ stopped' = stopped \cup KeysOf(u)
                        \cup (IF ForeignKeys THEN KeysFor(u) ELSE {})
  /\ UNCHANGED <<clock, keyReq, lastGrant, untouched, slowest>>

\* keys.Create fails and the caller gets the error.
CreateError(r) ==
  /\ KeyStoreFails
  /\ KeyAt(r, "create")
  /\ KeyReturn(r)
  /\ UNCHANGED <<alive, keys, clock, stopped, lastGrant, untouched, slowest>>

KeyTick ==
  /\ clock < MaxClock
  /\ clock' = clock + 1
  /\ UNCHANGED <<alive, keys, keyReq, stopped, lastGrant, untouched, slowest>>

-----------------------------------------------------------------------------

Handle(r) ==
  \/ GenerateAPIKey(r)
  \/ Create(r)
  \/ CreateError(r)
  \/ \E k \in Kids : AuthenticateAPIKey(r, k)
  \/ TouchLastUsed(r)
  \/ TouchError(r)
  \/ \E u \in Owners, k \in Kids : RevokeAPIKey(r, u, k)
  \/ \E u \in Owners : DeleteOwner(r, u)

KeysNext ==
  /\ (\E r \in KeyRequests : Handle(r)) \/ KeyTick
  /\ UNCHANGED keyStore

KeysSpec == KeysInit /\ [][KeysNext]_keyVars

-----------------------------------------------------------------------------
(* Properties *)

\* Once RevokeAPIKey or DeleteAccount has returned, the key is never accepted
\* again ("there is no un-revoke", RevokeAPIKey), whatever was in flight: with
\* foreign keys not even a key that GenerateAPIKey was still making.  The
\* memory store keeps the keys of a deleted account.
StoppedIsRefused ==
  [][keyStore # "memory" =>
       \A k \in stopped : lastGrant'[k] = lastGrant[k]]_keyVars

\* "accurate to within a few minutes" (APIKey.LastUsedAt): last_used_at is
\* behind the last use by less than the granularity, or by no more than the
\* longest delay between a request's read and its write; unless the last write
\* failed, or one is under way.
LastUsedTracksUse ==
  \A k \in Kids \ untouched :
    /\ keys[k] # Absent
    /\ lastGrant[k] # Absent
    /\ \A r \in KeyRequests : KeyAt(r, "touch") => keyReq[r].key # k
    => /\ keys[k].lastUsed # Absent
       /\ \/ keys[k].lastUsed > lastGrant[k] - Granularity
          \/ keys[k].lastUsed >= lastGrant[k] - slowest

=============================================================================
