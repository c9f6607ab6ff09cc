---------------------------- MODULE APIKeysProofs ----------------------------
(***************************************************************************)
(* Proofs about module APIKeys, for every number of users, keys and        *)
(* requests, every store, every lifetime and every granularity.            *)
(*                                                                         *)
(* A key that was stopped stays refused because a key in the making is a   *)
(* new one (Making) and what was stopped is gone, revoked, or about to be  *)
(* refused by the foreign key (StopKept).  last_used_at keeps up because   *)
(* no request holds a time from the future (Held, Grants).                 *)
(***************************************************************************)
EXTENDS APIKeys, TLAPS

\* A request about to write has what it is to write.
Held ==
  \A r \in KeyRequests :
    /\ KeyAt(r, "create") => keyReq[r].key \in Kids /\ keyReq[r].user \in Owners
    /\ KeyAt(r, "touch") => keyReq[r].key \in Kids /\ keyReq[r].at \in Time /\ keyReq[r].at <= clock

\* A key that was accepted is stored, or was stopped since.
Grants ==
  \A k \in Kids : lastGrant[k] # Absent =>
    lastGrant[k] <= clock /\ (keys[k] # Absent \/ k \in stopped)

\* A key in the making was never stored, and one request makes it.
Making ==
  \A r \in KeyRequests : KeyAt(r, "create") =>
    /\ keys[keyReq[r].key] = Absent
    /\ lastGrant[keyReq[r].key] = Absent
    /\ \A q \in KeyRequests \ {r} : keyReq[q].key # keyReq[r].key

\* Where deleting a user takes the keys along, a key that was stopped is
\* gone or revoked, and is not stored if it is still in the making.
StopKept ==
  keyStore # "memory" =>
    /\ \A k \in stopped : keys[k] = Absent \/ keys[k].revoked
    /\ \A r \in KeyRequests : KeyAt(r, "create") /\ keyReq[r].key \in stopped
         => ForeignKeys /\ keyReq[r].user \notin alive

Inv == KeysTypeOK /\ Held /\ Grants /\ Making /\ StopKept /\ LastUsedTracksUse

-----------------------------------------------------------------------------

\* A finished request is a well-formed one, and Absent is no row, id or time.
LEMMA IdleRequest ==
  /\ KeyIdle \in KeyRequest /\ KeyIdle.pc = "idle" /\ KeyIdle.key = Absent
  /\ Absent \notin Kids /\ Absent \notin Key /\ Absent \notin Nat /\ Absent \notin Owners
  /\ Absent \notin Time
  BY AbsentAssumption, TimesAssumption DEF KeyIdle, KeyRequest, Time

\* If request r becomes q, the requests have their types and what they need.
LEMMA RequestsKept ==
  ASSUME KeysTypeOK, Held, NEW r \in KeyRequests, NEW q \in KeyRequest,
         keyReq' = [keyReq EXCEPT ![r] = q], clock' = clock,
         q.pc = "create" => q.key \in Kids /\ q.user \in Owners,
         q.pc = "touch" => q.key \in Kids /\ q.at \in Time /\ q.at <= clock
  PROVE  /\ keyReq' \in [KeyRequests -> KeyRequest] /\ Held'
         /\ keyReq'[r] = q /\ \A x \in KeyRequests \ {r} : keyReq'[x] = keyReq[x]
<1>1. keyReq'[r] = q /\ \A x \in KeyRequests \ {r} : keyReq'[x] = keyReq[x]
  BY DEF KeysTypeOK
<1>2. keyReq' \in [KeyRequests -> KeyRequest]
  BY DEF KeysTypeOK
<1>3. Held'
  BY <1>1 DEF Held, KeyAt
<1>4. QED
  BY <1>1, <1>2, <1>3

\* The invariant holds before the first key is made.
LEMMA InitInv == KeysInit => Inv
<1> SUFFICES ASSUME KeysInit PROVE Inv
  OBVIOUS
<1>1. 0 \in Time
  BY TimesAssumption DEF Time
<1>2. \A r \in KeyRequests : keyReq[r].pc = "idle"
  BY IdleRequest DEF KeysInit
<1>3. KeysTypeOK
  BY <1>1, IdleRequest DEF KeysInit, KeysTypeOK
<1>4. Held /\ Grants /\ Making /\ StopKept
  BY <1>2 DEF KeysInit, Held, Grants, Making, StopKept, KeyAt
<1>5. LastUsedTracksUse
  BY DEF KeysInit, LastUsedTracksUse
<1>6. QED
  BY <1>3, <1>4, <1>5 DEF Inv

\* Up to keys.Create, the key is fresh.
LEMMA GenerateStep ==
  ASSUME Inv, keyStore' = keyStore, NEW r \in KeyRequests, GenerateAPIKey(r)
  PROVE  Inv'
<1>0. KeysTypeOK /\ alive \subseteq Owners /\ clock \in Nat /\ TTLs \subseteq Nat
  BY TTLsAssumption, TimesAssumption DEF Inv, KeysTypeOK, Time
<1>1. PICK u \in alive, k \in FreshKids, ttl \in TTLs :
        keyReq' = [keyReq EXCEPT ![r] = [KeyIdle EXCEPT !.pc = "create", !.key = k, !.user = u,
                                     !.expires = IF ttl > 0 THEN clock + ttl ELSE Absent]]
  BY DEF GenerateAPIKey
<1> DEFINE q == [KeyIdle EXCEPT !.pc = "create", !.key = k, !.user = u,
                             !.expires = IF ttl > 0 THEN clock + ttl ELSE Absent]
<1>2. /\ UNCHANGED <<alive, keys, clock, stopped, lastGrant, untouched, slowest>>
      /\ keyReq[r].pc = "idle"
  BY DEF GenerateAPIKey, KeyAt
<1>3. clock + ttl \in Nat
  BY <1>0
<1>4. /\ k \in Kids /\ k \notin stopped /\ keys[k] = Absent /\ u \in Owners
      /\ \A x \in KeyRequests : keyReq[x].key # k
  BY <1>0 DEF FreshKids, StoredKeys
<1>5. q \in KeyRequest /\ q.pc = "create" /\ q.key = k /\ q.user = u
  BY <1>3, <1>4 DEF KeyIdle, KeyRequest
<1>6. keyReq' = [keyReq EXCEPT ![r] = q]
  BY <1>1
<1> HIDE DEF q
<1>7. /\ keyReq' \in [KeyRequests -> KeyRequest] /\ Held'
      /\ keyReq'[r] = q /\ \A x \in KeyRequests \ {r} : keyReq'[x] = keyReq[x]
  BY <1>2, <1>4, <1>5, <1>6, RequestsKept DEF Inv
<1>8. KeysTypeOK'
  BY <1>2, <1>7 DEF Inv, KeysTypeOK
<1>9. Grants'
  BY <1>2 DEF Inv, Grants
<1>10. Making'
  <2>1. lastGrant[k] = Absent
    BY <1>4 DEF Inv, Grants
  <2>2. QED
    BY <1>2, <1>4, <1>5, <1>7, <2>1 DEF Inv, Making, KeyAt
<1>11. StopKept'
  BY <1>2, <1>4, <1>5, <1>7 DEF Inv, StopKept, ForeignKeys, KeyAt
<1>12. LastUsedTracksUse'
  BY <1>2, <1>5, <1>7 DEF Inv, LastUsedTracksUse, KeyAt
<1>13. QED
  BY <1>7, <1>8, <1>9, <1>10, <1>11, <1>12 DEF Inv

\* A request that ends and changes no row keeps the invariant, if what is to
\* be written next is not waited for.
LEMMA ReturnKept ==
  ASSUME Inv, keyStore' = keyStore, NEW r \in KeyRequests, KeyReturn(r),
         UNCHANGED <<alive, keys, clock, stopped, lastGrant, slowest>>,
         untouched \subseteq untouched', untouched' \subseteq Kids,
         KeyAt(r, "touch") => keyReq[r].key \in untouched'
  PROVE  Inv'
<1>1. /\ keyReq' \in [KeyRequests -> KeyRequest] /\ Held'
      /\ keyReq'[r] = KeyIdle /\ \A x \in KeyRequests \ {r} : keyReq'[x] = keyReq[x]
  BY IdleRequest, RequestsKept DEF Inv, KeyReturn
<1>2. KeysTypeOK'
  BY <1>1 DEF Inv, KeysTypeOK
<1>3. Grants' /\ StopKept'
  BY <1>1, IdleRequest DEF Inv, Grants, StopKept, ForeignKeys, KeyAt
<1>4. Making'
  BY <1>1, IdleRequest DEF Inv, Held, Making, KeyAt
<1>5. LastUsedTracksUse'
  BY <1>1, IdleRequest DEF Inv, LastUsedTracksUse, KeyAt
<1>6. QED
  BY <1>1, <1>2, <1>3, <1>4, <1>5 DEF Inv

\* keys.Create stores a key that was never accepted, or is refused.
LEMMA CreateStep ==
  ASSUME Inv, keyStore' = keyStore, NEW r \in KeyRequests, Create(r)
  PROVE  Inv'
<1> DEFINE k == keyReq[r].key
<1>0. /\ keyReq[r] \in KeyRequest /\ KeyAt(r, "create") /\ KeyReturn(r)
      /\ UNCHANGED <<alive, clock, stopped, lastGrant, untouched, slowest>>
      /\ k \in Kids /\ keyReq[r].user \in Owners /\ keys \in [Kids -> Key \cup {Absent}]
  BY DEF Inv, KeysTypeOK, Create, Held
<1>1. CASE ~ReferencesUser(keyReq[r].user)
  <2>1. keys' = keys
    BY <1>1 DEF Create
  <2>2. QED
    BY <1>0, <2>1, ReturnKept DEF Inv, KeysTypeOK, KeyAt
<1>2. CASE ReferencesUser(keyReq[r].user)
  <2>1. /\ keyReq' \in [KeyRequests -> KeyRequest] /\ Held'
        /\ keyReq'[r] = KeyIdle /\ \A x \in KeyRequests \ {r} : keyReq'[x] = keyReq[x]
    BY <1>0, IdleRequest, RequestsKept DEF Inv, KeyReturn
  <2>2. NewKey(r) \in Key
    BY <1>0 DEF NewKey, Key, KeyRequest
  <2>3. keys' = [keys EXCEPT ![k] = NewKey(r)]
    BY <1>2 DEF Create
  <2>4. /\ keys' \in [Kids -> Key \cup {Absent}] /\ keys'[k] = NewKey(r)
        /\ \A j \in Kids \ {k} : keys'[j] = keys[j]
    BY <1>0, <2>2, <2>3
  <2>5. KeysTypeOK'
    BY <1>0, <2>1, <2>4 DEF Inv, KeysTypeOK
  <2>6. lastGrant[k] = Absent /\ \A x \in KeyRequests \ {r} : keyReq[x].key # k
    BY <1>0 DEF Inv, Making
  <2>7. Grants'
    BY <1>0, <2>4, <2>6 DEF Inv, Grants
  <2>8. Making'
    <3>1. ASSUME NEW x \in KeyRequests, KeyAt(x, "create")'
          PROVE  /\ keys'[keyReq'[x].key] = Absent
                 /\ lastGrant'[keyReq'[x].key] = Absent
                 /\ \A q \in KeyRequests \ {x} : keyReq'[q].key # keyReq'[x].key
      <4>1. x # r /\ keyReq'[x] = keyReq[x] /\ KeyAt(x, "create")
        BY <2>1, <3>1, IdleRequest DEF KeyAt
      <4>2. keyReq[x].key \in Kids /\ keyReq[x].key # k
        BY <2>6, <4>1 DEF Inv, Held
      <4>3. keys[keyReq[x].key] = Absent /\ lastGrant[keyReq[x].key] = Absent
            /\ \A q \in KeyRequests \ {x} : keyReq[q].key # keyReq[x].key
        BY <4>1 DEF Inv, Making
      <4>4. \A q \in KeyRequests \ {x} : keyReq'[q].key # keyReq[x].key
        BY <2>1, <4>2, <4>3, IdleRequest
      <4>5. QED
        BY <1>0, <2>4, <4>1, <4>2, <4>3, <4>4
    <3>2. QED
      BY <3>1 DEF Making
  <2>9. StopKept'
    <3>1. CASE keyStore = "memory"
      BY <3>1 DEF StopKept
    <3>2. CASE keyStore # "memory"
      <4>1. k \notin stopped
        BY <1>0, <1>2, <3>2 DEF Inv, StopKept, ReferencesUser
      <4>2. \A j \in stopped : keys'[j] = Absent \/ keys'[j].revoked
        BY <2>4, <3>2, <4>1 DEF Inv, StopKept, KeysTypeOK
      <4>3. \A x \in KeyRequests : KeyAt(x, "create")' => KeyAt(x, "create") /\ keyReq'[x] = keyReq[x]
        BY <2>1, IdleRequest DEF KeyAt
      <4>4. QED
        BY <1>0, <3>2, <4>2, <4>3 DEF Inv, StopKept, ForeignKeys
    <3>3. QED
      BY <3>1, <3>2
  <2>10. LastUsedTracksUse'
    <3>1. ASSUME NEW j \in Kids \ untouched, j # k
          PROVE  (\A x \in KeyRequests : KeyAt(x, "touch")' => keyReq'[x].key # j)
                   => \A x \in KeyRequests : KeyAt(x, "touch") => keyReq[x].key # j
      BY <1>0, <2>1, <3>1 DEF KeyAt
    <3>2. QED
      BY <1>0, <2>4, <2>6, <3>1 DEF Inv, LastUsedTracksUse
  <2>11. QED
    BY <2>1, <2>5, <2>7, <2>8, <2>9, <2>10 DEF Inv
<1>3. QED
  BY <1>1, <1>2

\* A key that is let in is stored and not revoked, so it was not stopped; its
\* last use is recorded, or recent enough.
LEMMA AuthenticateStep ==
  ASSUME Inv, keyStore' = keyStore, NEW r \in KeyRequests, NEW k \in Kids,
         AuthenticateAPIKey(r, k)
  PROVE  /\ Inv'
         /\ keyStore # "memory" => \A j \in stopped : lastGrant'[j] = lastGrant[j]
<1>0. /\ KeysTypeOK /\ keys \in [Kids -> Key \cup {Absent}] /\ clock \in Time /\ clock \in Nat
      /\ lastGrant \in [Kids -> Time \cup {Absent}] /\ keyReq \in [KeyRequests -> KeyRequest]
      /\ Granularity \in Nat
  BY TimesAssumption DEF Inv, KeysTypeOK, Time
<1>1. /\ KeyAt(r, "idle") /\ keys[k] # Absent /\ keys[k] \in Key /\ ~keys[k].revoked
      /\ lastGrant' = [lastGrant EXCEPT ![k] = clock]
      /\ UNCHANGED <<alive, keys, clock, stopped, untouched, slowest>>
  BY <1>0 DEF AuthenticateAPIKey, StoredKeys, Usable
<1>2. /\ lastGrant' \in [Kids -> Time \cup {Absent}] /\ lastGrant'[k] = clock
      /\ \A j \in Kids \ {k} : lastGrant'[j] = lastGrant[j]
  BY <1>0, <1>1
<1>3. keyStore # "memory" => k \notin stopped
  BY <1>0, <1>1, IdleRequest DEF Inv, StopKept
<1>4. keyStore # "memory" => \A j \in stopped : lastGrant'[j] = lastGrant[j]
  BY <1>2, <1>3 DEF Inv, KeysTypeOK
<1>5. Grants'
  BY <1>0, <1>1, <1>2 DEF Inv, Grants
<1>6. \A x \in KeyRequests : KeyAt(x, "create") => keyReq[x].key # k
  BY <1>1 DEF Inv, Making
<1>7. CASE ~Stale(keys[k].lastUsed)
  <2>1. keyReq' = keyReq
    BY <1>7 DEF AuthenticateAPIKey
  <2>2. KeysTypeOK' /\ Held' /\ StopKept'
    BY <1>1, <1>2, <2>1 DEF Inv, KeysTypeOK, Held, StopKept, ForeignKeys, KeyAt
  <2>3. Making'
    <3>1. \A x \in KeyRequests : KeyAt(x, "create") => keyReq[x].key \in Kids \ {k}
      BY <1>6 DEF Inv, Held
    <3>2. QED
      BY <1>1, <1>2, <2>1, <3>1 DEF Inv, Making, KeyAt
  <2>4. keys[k].lastUsed # Absent /\ keys[k].lastUsed > clock - Granularity
    <3>1. keys[k].lastUsed # Absent /\ ~(clock - keys[k].lastUsed >= Granularity)
      BY <1>7 DEF Stale
    <3>2. keys[k].lastUsed \in Nat
      BY <1>1, <3>1 DEF Key, Time
    <3>3. QED
      BY <1>0, <3>1, <3>2
  <2>5. LastUsedTracksUse'
    BY <1>1, <1>2, <2>1, <2>4 DEF Inv, LastUsedTracksUse, KeyAt
  <2>6. QED
    BY <1>4, <1>5, <2>2, <2>3, <2>5 DEF Inv
<1>8. CASE Stale(keys[k].lastUsed)
  <2> DEFINE q == [KeyIdle EXCEPT !.pc = "touch", !.key = k, !.at = clock]
  <2>1. keyReq' = [keyReq EXCEPT ![r] = q]
    BY <1>8 DEF AuthenticateAPIKey
  <2>2. q \in KeyRequest /\ q.pc = "touch" /\ q.key = k /\ q.at = clock
    BY <1>0 DEF KeyIdle, KeyRequest
  <2> HIDE DEF q
  <2>n. clock <= clock
    BY <1>0
  <2>3. /\ keyReq' \in [KeyRequests -> KeyRequest] /\ Held'
        /\ keyReq'[r] = q /\ \A x \in KeyRequests \ {r} : keyReq'[x] = keyReq[x]
    BY <1>0, <1>1, <2>1, <2>2, <2>n, RequestsKept DEF Inv
  <2>4. KeysTypeOK'
    BY <1>1, <1>2, <2>3 DEF Inv, KeysTypeOK
  <2>5. \A x \in KeyRequests : KeyAt(x, "create")' => KeyAt(x, "create") /\ x # r /\ keyReq'[x] = keyReq[x]
    BY <2>2, <2>3 DEF KeyAt
  <2>6. StopKept'
    BY <1>1, <2>5 DEF Inv, StopKept, ForeignKeys
  <2>7. Making'
    <3>1. ASSUME NEW x \in KeyRequests, KeyAt(x, "create")'
          PROVE  /\ keys'[keyReq'[x].key] = Absent
                 /\ lastGrant'[keyReq'[x].key] = Absent
                 /\ \A y \in KeyRequests \ {x} : keyReq'[y].key # keyReq'[x].key
      <4>1. KeyAt(x, "create") /\ x # r /\ keyReq'[x] = keyReq[x]
        BY <2>5, <3>1
      <4>2. keyReq[x].key \in Kids /\ keyReq[x].key # k
        BY <1>6, <4>1 DEF Inv, Held
      <4>3. keys[keyReq[x].key] = Absent /\ lastGrant[keyReq[x].key] = Absent
            /\ \A y \in KeyRequests \ {x} : keyReq[y].key # keyReq[x].key
        BY <4>1 DEF Inv, Making
      <4>4. \A y \in KeyRequests \ {x} : keyReq'[y].key # keyReq[x].key
        BY <2>2, <2>3, <4>2, <4>3
      <4>5. QED
        BY <1>1, <1>2, <4>1, <4>2, <4>3, <4>4
    <3>2. QED
      BY <3>1 DEF Making
  <2>8. LastUsedTracksUse'
    <3>1. ASSUME NEW j \in Kids \ untouched, j # k
          PROVE  (\A x \in KeyRequests : KeyAt(x, "touch")' => keyReq'[x].key # j)
                   => \A x \in KeyRequests : KeyAt(x, "touch") => keyReq[x].key # j
      BY <1>1, <2>3, <3>1 DEF KeyAt
    <3>2. KeyAt(r, "touch")' /\ keyReq'[r].key = k
      BY <2>2, <2>3 DEF KeyAt
    <3>3. QED
      BY <1>1, <1>2, <3>1, <3>2 DEF Inv, LastUsedTracksUse
  <2>9. QED
    BY <1>4, <1>5, <2>3, <2>4, <2>6, <2>7, <2>8 DEF Inv
<1>9. QED
  BY <1>7, <1>8

\* A write of last_used_at is late by no more than `slowest`.
LEMMA TouchStep ==
  ASSUME Inv, keyStore' = keyStore, NEW r \in KeyRequests, TouchLastUsed(r)
  PROVE  Inv'
<1> DEFINE k == keyReq[r].key
           at == keyReq[r].at
<1>0. /\ keys \in [Kids -> Key \cup {Absent}] /\ k \in Kids /\ at \in Time /\ at <= clock
      /\ clock \in Nat /\ slowest \in Nat /\ at \in Nat /\ clock <= MaxClock /\ slowest <= MaxClock
      /\ MaxClock \in Nat
      /\ untouched \subseteq Kids
  BY TimesAssumption DEF Inv, KeysTypeOK, Held, TouchLastUsed, Time
<1>1. /\ KeyAt(r, "touch") /\ KeyReturn(r) /\ keys' = [keys EXCEPT ![k] = Touched(@, at)]
      /\ untouched' = untouched \ {k}
      /\ slowest' = IF clock - at > slowest THEN clock - at ELSE slowest
      /\ UNCHANGED <<alive, clock, stopped, lastGrant>>
  BY DEF TouchLastUsed
<1>2. slowest' \in Nat /\ slowest' >= clock - at /\ slowest' >= slowest /\ slowest' \in Time
  BY <1>0, <1>1 DEF Time
<1>3. /\ Touched(keys[k], at) \in Key \cup {Absent}
      /\ Touched(keys[k], at) = Absent <=> keys[k] = Absent
      /\ keys[k] # Absent => /\ Touched(keys[k], at).lastUsed = at
                           /\ Touched(keys[k], at).revoked = keys[k].revoked
  <2>1. CASE keys[k] = Absent
    BY <2>1 DEF Touched
  <2>2. CASE keys[k] # Absent
    <3>1. keys[k] \in Key
      BY <1>0, <2>2
    <3>2. Touched(keys[k], at) = [keys[k] EXCEPT !.lastUsed = at]
      BY <2>2 DEF Touched
    <3>3. [keys[k] EXCEPT !.lastUsed = at] \in Key
      BY <1>0, <3>1 DEF Key
    <3>4. QED
      BY <2>2, <3>1, <3>2, <3>3, IdleRequest DEF Key
  <2>3. QED
    BY <2>1, <2>2
<1>4. /\ keys' \in [Kids -> Key \cup {Absent}] /\ keys'[k] = Touched(keys[k], at)
      /\ \A j \in Kids \ {k} : keys'[j] = keys[j]
  BY <1>0, <1>1, <1>3
<1>5. /\ keyReq' \in [KeyRequests -> KeyRequest] /\ Held'
      /\ keyReq'[r] = KeyIdle /\ \A x \in KeyRequests \ {r} : keyReq'[x] = keyReq[x]
  BY <1>1, IdleRequest, RequestsKept DEF Inv, KeyReturn
<1>6. KeysTypeOK'
  BY <1>1, <1>2, <1>4, <1>5 DEF Inv, KeysTypeOK
<1>7. \A j \in Kids : keys'[j] = Absent <=> keys[j] = Absent
  BY <1>3, <1>4
<1>8. Grants'
  BY <1>1, <1>7 DEF Inv, Grants
<1>9. \A x \in KeyRequests : KeyAt(x, "create")' => KeyAt(x, "create") /\ x # r /\ keyReq'[x] = keyReq[x]
  BY <1>5, IdleRequest DEF KeyAt
<1>10. Making'
  <2>1. ASSUME NEW x \in KeyRequests, KeyAt(x, "create")'
        PROVE  /\ keys'[keyReq'[x].key] = Absent
               /\ lastGrant'[keyReq'[x].key] = Absent
               /\ \A y \in KeyRequests \ {x} : keyReq'[y].key # keyReq'[x].key
    <3>1. KeyAt(x, "create") /\ x # r /\ keyReq'[x] = keyReq[x]
      BY <1>9, <2>1
    <3>2. keyReq[x].key \in Kids /\ keys[keyReq[x].key] = Absent /\ lastGrant[keyReq[x].key] = Absent
          /\ \A y \in KeyRequests \ {x} : keyReq[y].key # keyReq[x].key
      BY <3>1 DEF Inv, Making, Held
    <3>3. \A y \in KeyRequests \ {x} : keyReq'[y].key # keyReq[x].key
      BY <1>5, <3>2, IdleRequest
    <3>4. QED
      BY <1>1, <1>7, <3>1, <3>2, <3>3
  <2>2. QED
    BY <2>1 DEF Making
<1>11. StopKept'
  <2>1. ASSUME NEW j \in stopped, keys[j] = Absent \/ keys[j].revoked
        PROVE  keys'[j] = Absent \/ keys'[j].revoked
    <3>1. j \in Kids
      BY DEF Inv, KeysTypeOK
    <3>2. QED
      BY <1>3, <1>4, <2>1, <3>1
  <2>2. QED
    BY <1>1, <1>9, <2>1 DEF Inv, StopKept, ForeignKeys
<1>12. LastUsedTracksUse'
  <2>1. ASSUME NEW j \in Kids \ untouched', keys'[j] # Absent, lastGrant'[j] # Absent,
               \A x \in KeyRequests : KeyAt(x, "touch")' => keyReq'[x].key # j
        PROVE  /\ keys'[j].lastUsed # Absent
               /\ \/ keys'[j].lastUsed > lastGrant'[j] - Granularity
                  \/ keys'[j].lastUsed >= lastGrant'[j] - slowest'
    <3>1. CASE j = k
      <4>1. keys'[k].lastUsed = at
        BY <1>3, <1>4, <2>1, <3>1
      <4>2. lastGrant[k] \in Nat /\ lastGrant[k] <= clock
        BY <1>0, <1>1, <2>1, <3>1 DEF Inv, Grants, KeysTypeOK, Time
      <4>3. at >= lastGrant[k] - slowest'
        BY <1>0, <1>2, <4>2
      <4>4. QED
        BY <1>0, <1>1, <3>1, <4>1, <4>3, IdleRequest
    <3>2. CASE j # k
      <4>1. \A x \in KeyRequests : KeyAt(x, "touch") => keyReq[x].key # j
        BY <1>5, <2>1, <3>2 DEF KeyAt
      <4>2. /\ keys[j].lastUsed # Absent
            /\ \/ keys[j].lastUsed > lastGrant[j] - Granularity
               \/ keys[j].lastUsed >= lastGrant[j] - slowest
        BY <1>1, <1>4, <2>1, <3>2, <4>1 DEF Inv, LastUsedTracksUse
      <4>3. keys[j] \in Key /\ keys[j].lastUsed \in Nat /\ lastGrant[j] \in Nat
        BY <1>0, <1>1, <1>4, <2>1, <3>2, <4>2 DEF Inv, KeysTypeOK, Key, Time
      <4>4. keys[j].lastUsed >= lastGrant[j] - slowest
              => keys[j].lastUsed >= lastGrant[j] - slowest'
        BY <1>0, <1>2, <4>3
      <4>5. QED
        BY <1>1, <1>4, <3>2, <4>2, <4>4
    <3>3. QED
      BY <3>1, <3>2
  <2>2. QED
    BY <2>1 DEF LastUsedTracksUse
<1>13. QED
  BY <1>5, <1>6, <1>8, <1>10, <1>11, <1>12 DEF Inv

\* A revocation stops a stored key, and so none that is in the making.
LEMMA RevokeStep ==
  ASSUME Inv, keyStore' = keyStore, NEW r \in KeyRequests, NEW u \in Owners, NEW k \in Kids,
         RevokeAPIKey(r, u, k)
  PROVE  Inv'
<1>0. /\ keys \in [Kids -> Key \cup {Absent}] /\ stopped \subseteq Kids
  BY DEF Inv, KeysTypeOK
<1>1. /\ keys[k] # Absent /\ keys' = [keys EXCEPT ![k] = [keys[k] EXCEPT !.revoked = TRUE]]
      /\ stopped' = stopped \cup {k}
      /\ UNCHANGED <<alive, clock, keyReq, lastGrant, untouched, slowest>>
  BY DEF RevokeAPIKey, Revocable, StoredKeys
<1>2. /\ [keys[k] EXCEPT !.revoked = TRUE] \in Key
      /\ [keys[k] EXCEPT !.revoked = TRUE].revoked = TRUE
      /\ [keys[k] EXCEPT !.revoked = TRUE].lastUsed = keys[k].lastUsed
  BY <1>0, <1>1 DEF Key
<1>3. /\ keys' \in [Kids -> Key \cup {Absent}]
      /\ keys'[k] # Absent /\ keys'[k].revoked = TRUE /\ keys'[k].lastUsed = keys[k].lastUsed
      /\ \A j \in Kids \ {k} : keys'[j] = keys[j]
  BY <1>0, <1>1, <1>2, IdleRequest
<1>4. KeysTypeOK' /\ Held'
  BY <1>0, <1>1, <1>3 DEF Inv, KeysTypeOK, Held, KeyAt
<1>5. Grants'
  BY <1>1, <1>3 DEF Inv, Grants
<1>6. \A x \in KeyRequests : KeyAt(x, "create") => keyReq[x].key \in Kids \ {k}
  BY <1>1 DEF Inv, Making, Held
<1>7. Making'
  BY <1>1, <1>3, <1>6 DEF Inv, Making, KeyAt
<1>8. StopKept'
  BY <1>0, <1>1, <1>3, <1>6 DEF Inv, StopKept, ForeignKeys, KeyAt
<1>9. LastUsedTracksUse'
  BY <1>1, <1>3 DEF Inv, LastUsedTracksUse, KeyAt
<1>10. QED
  BY <1>4, <1>5, <1>7, <1>8, <1>9 DEF Inv

\* The deletion of a user takes the keys along, or leaves all of them.
LEMMA DeleteStep ==
  ASSUME Inv, keyStore' = keyStore, NEW r \in KeyRequests, NEW u \in Owners, DeleteOwner(r, u)
  PROVE  Inv'
<1>0. /\ keys \in [Kids -> Key \cup {Absent}] /\ stopped \subseteq Kids
  BY DEF Inv, KeysTypeOK
<1>1. /\ alive' = alive \ {u}
      /\ keys' = [k \in Kids |-> IF k \in Cascaded(u) THEN Absent ELSE keys[k]]
      /\ stopped' = stopped \cup KeysOf(u) \cup (IF ForeignKeys THEN KeysFor(u) ELSE {})
      /\ UNCHANGED <<clock, keyReq, lastGrant, untouched, slowest>>
  BY DEF DeleteOwner
<1>2. /\ KeysOf(u) \subseteq Kids /\ \A k \in KeysOf(u) : keys[k] # Absent
      /\ Cascaded(u) \subseteq KeysOf(u)
      /\ keyStore # "memory" => Cascaded(u) = KeysOf(u)
  BY DEF KeysOf, StoredKeys, Cascaded
<1>3. \A k \in KeysFor(u) : \E x \in KeyRequests : KeyAt(x, "create") /\ keyReq[x].user = u /\ k = keyReq[x].key
  BY DEF KeysFor
<1>4. KeysFor(u) \subseteq Kids /\ \A k \in KeysFor(u) : keys[k] = Absent
  BY <1>3 DEF Inv, Held, Making
<1>5. /\ keys' \in [Kids -> Key \cup {Absent}]
      /\ \A k \in Kids : keys'[k] = Absent \/ (keys'[k] = keys[k] /\ k \notin Cascaded(u))
      /\ \A k \in Cascaded(u) : keys'[k] = Absent
      /\ \A k \in Kids : keys[k] = Absent => keys'[k] = Absent
      /\ \A k \in Kids : k \notin Cascaded(u) => keys'[k] = keys[k]
  BY <1>0, <1>1, <1>2
<1>6. KeysTypeOK' /\ Held'
  BY <1>0, <1>1, <1>2, <1>4, <1>5 DEF Inv, KeysTypeOK, Held, KeyAt
<1>7. Grants'
  <2>1. ASSUME NEW k \in Kids, lastGrant[k] # Absent
        PROVE  keys'[k] # Absent \/ k \in stopped'
    BY <1>1, <1>2, <1>5, <2>1 DEF Inv, Grants
  <2>2. QED
    BY <1>1, <2>1 DEF Inv, Grants
<1>8. \A x \in KeyRequests : KeyAt(x, "create") => keyReq[x].key \in Kids /\ keys[keyReq[x].key] = Absent
  BY DEF Inv, Making, Held
<1>9. Making'
  BY <1>1, <1>5, <1>8 DEF Inv, Making, KeyAt
<1>10. StopKept'
  <2> SUFFICES ASSUME keyStore # "memory"
               PROVE  /\ \A k \in stopped' : keys'[k] = Absent \/ keys'[k].revoked
                      /\ \A x \in KeyRequests : KeyAt(x, "create")' /\ keyReq'[x].key \in stopped'
                           => ForeignKeys' /\ keyReq'[x].user \notin alive'
    BY DEF StopKept
  <2>1. ASSUME NEW k \in stopped'
        PROVE  keys'[k] = Absent \/ keys'[k].revoked
    <3>1. CASE k \in stopped
      <4>1. k \in Kids /\ (keys[k] = Absent \/ keys[k].revoked)
        BY <1>0, <3>1 DEF Inv, StopKept
      <4>2. QED
        BY <1>5, <4>1
    <3>2. CASE k \in KeysOf(u)
      BY <1>2, <1>5, <3>2
    <3>3. CASE k \in KeysFor(u)
      BY <1>4, <1>5, <3>3
    <3>4. QED
      BY <1>1, <2>1, <3>1, <3>2, <3>3
  <2>2. ASSUME NEW x \in KeyRequests, KeyAt(x, "create"), keyReq[x].key \in stopped'
        PROVE  ForeignKeys /\ keyReq[x].user \notin alive'
    <3>1. keyReq[x].key \notin KeysOf(u)
      BY <1>2, <1>8, <2>2
    <3>2. CASE keyReq[x].key \in stopped
      BY <1>1, <2>2, <3>2 DEF Inv, StopKept
    <3>3. CASE keyReq[x].key \in KeysFor(u) /\ ForeignKeys
      <4>1. PICK y \in KeyRequests : KeyAt(y, "create") /\ keyReq[y].user = u /\ keyReq[x].key = keyReq[y].key
        BY <1>3, <3>3
      <4>2. y = x
        BY <2>2, <4>1 DEF Inv, Making
      <4>3. QED
        BY <1>1, <3>3, <4>1, <4>2
    <3>4. QED
      BY <1>1, <2>2, <3>1, <3>2, <3>3
  <2>3. QED
    BY <1>1, <2>1, <2>2 DEF KeyAt, ForeignKeys
<1>11. LastUsedTracksUse'
  BY <1>1, <1>5 DEF Inv, LastUsedTracksUse, KeyAt
<1>12. QED
  BY <1>6, <1>7, <1>9, <1>10, <1>11 DEF Inv

\* The passing of time keeps the invariant.
LEMMA TickStep == ASSUME Inv, keyStore' = keyStore, KeyTick PROVE Inv'
<1>0. clock \in Nat /\ clock' = clock + 1 /\ clock' \in Time
      /\ UNCHANGED <<alive, keys, keyReq, stopped, lastGrant, untouched, slowest>>
  BY TimesAssumption DEF Inv, KeysTypeOK, KeyTick, Time
<1>1. KeysTypeOK' /\ Making' /\ StopKept' /\ LastUsedTracksUse'
  BY <1>0 DEF Inv, KeysTypeOK, Making, StopKept, LastUsedTracksUse, ForeignKeys, KeyAt
<1>2. Held'
  <2>1. \A r \in KeyRequests : KeyAt(r, "touch") => keyReq[r].at \in Nat
    BY TimesAssumption DEF Inv, Held, Time
  <2>2. QED
    BY <1>0, <2>1 DEF Inv, Held, KeyAt
<1>3. Grants'
  <2>1. \A k \in Kids : lastGrant[k] # Absent => lastGrant[k] \in Nat
    BY TimesAssumption DEF Inv, KeysTypeOK, Time
  <2>2. QED
    BY <1>0, <2>1 DEF Inv, Grants
<1>4. QED
  BY <1>1, <1>2, <1>3 DEF Inv

\* No step undoes the invariant, and none accepts a key that was stopped.
LEMMA NextInv ==
  ASSUME Inv, KeysNext
  PROVE  Inv' /\ (keyStore # "memory" => \A k \in stopped : lastGrant'[k] = lastGrant[k])
<1>0. keyStore' = keyStore
  BY DEF KeysNext
<1>1. CASE KeyTick
  BY <1>0, <1>1, TickStep DEF KeyTick
<1>2. ASSUME NEW r \in KeyRequests, Handle(r)
      PROVE  Inv' /\ (keyStore # "memory" => \A k \in stopped : lastGrant'[k] = lastGrant[k])
  <2>1. CASE GenerateAPIKey(r)
    BY <1>0, <2>1, GenerateStep DEF GenerateAPIKey
  <2>2. CASE Create(r)
    BY <1>0, <2>2, CreateStep DEF Create
  <2>3. CASE CreateError(r)
    BY <1>0, <2>3, ReturnKept DEF CreateError, Inv, KeysTypeOK, KeyAt
  <2>4. CASE \E k \in Kids : AuthenticateAPIKey(r, k)
    BY <1>0, <2>4, AuthenticateStep
  <2>5. CASE TouchLastUsed(r)
    BY <1>0, <2>5, TouchStep DEF TouchLastUsed
  <2>6. CASE TouchError(r)
    <3>1. keyReq[r].key \in Kids /\ untouched \subseteq Kids
      BY <2>6 DEF TouchError, Inv, KeysTypeOK, Held
    <3>2. QED
      BY <1>0, <2>6, <3>1, ReturnKept DEF TouchError
  <2>7. CASE \E u \in Owners, k \in Kids : RevokeAPIKey(r, u, k)
    BY <1>0, <2>7, RevokeStep DEF RevokeAPIKey
  <2>8. CASE \E u \in Owners : DeleteOwner(r, u)
    BY <1>0, <2>8, DeleteStep DEF DeleteOwner
  <2>9. QED
    BY <1>2, <2>1, <2>2, <2>3, <2>4, <2>5, <2>6, <2>7, <2>8 DEF Handle
<1>3. QED
  BY <1>1, <1>2 DEF KeysNext

\* The invariant depends on the variables only.
LEMMA InvStutter == Inv /\ UNCHANGED keyVars => Inv'
  BY DEF keyVars, Inv, KeysTypeOK, Held, Grants, Making, StopKept, LastUsedTracksUse, ForeignKeys, KeyAt

-----------------------------------------------------------------------------

\* The invariant holds of every state that the requests can reach.
THEOREM AlwaysInv == KeysSpec => []Inv
<1>1. Inv /\ [KeysNext]_keyVars => Inv'
  BY NextInv, InvStutter
<1>2. QED
  BY <1>1, InitInv, PTL DEF KeysSpec

\* The rows, the clock, the requests and the histories keep their types.
THEOREM TypeCorrect == KeysSpec => []KeysTypeOK
  BY AlwaysInv, PTL DEF Inv

\* last_used_at is behind the last use by less than the granularity, or by no
\* more than the slowest write took, unless the last write failed or one is
\* under way; whatever the order in which concurrent writes arrive.
THEOREM AlwaysLastUsedTracksUse == KeysSpec => []LastUsedTracksUse
  BY AlwaysInv, PTL DEF Inv

\* A key that RevokeAPIKey or DeleteAccount stopped is not accepted again,
\* whichever requests were making, using or revoking keys at the same time.
THEOREM AlwaysStoppedIsRefused == KeysSpec => StoppedIsRefused
<1>1. Inv /\ [KeysNext]_keyVars
        => [keyStore # "memory" => \A k \in stopped : lastGrant'[k] = lastGrant[k]]_keyVars
  BY NextInv
<1>2. QED
  BY <1>1, AlwaysInv, PTL DEF KeysSpec, StoppedIsRefused

=============================================================================
