------------------------- MODULE SecondFactorProofs -------------------------
(***************************************************************************)
(* Proofs about module SecondFactor, for every number of requests, secrets *)
(* and passkeys, every number and size of batches of recovery codes, and   *)
(* every store.                                                            *)
(*                                                                         *)
(* Each of the five properties needs a fact about requests in flight:      *)
(*   CodesKept    a batch that is being generated has never been stored,   *)
(*                and no two requests generate the same one;               *)
(*   BatchKept    a generation that is about to commit takes away the codes *)
(*                of every batch that it has not met;                      *)
(*   GateKept     what the gate did not see the account was without;       *)
(*   ConfirmKept  while a confirmation is under way the row has a secret   *)
(*                that a code was presented for, or a raced one.           *)
(***************************************************************************)
EXTENDS SecondFactor, TLAPS

\* A request about to write has what it is to write.
Held ==
  \A r \in Requests :
    /\ At(r, "enroll") => req[r].secret \in Secrets
    /\ req[r].pc \in {"generate", "delete", "replace"} => req[r].batch \in Batches

\* A code that completed a login is marked as used for as long as it is
\* stored, and the codes that a request is about to store are new.
CodesKept ==
  /\ \A c \in Code : redeemed[c] <= 1
  /\ \A c \in codes : redeemed[c] = 0 \/ c \in used
  /\ \A r \in Requests : req[r].batch # None =>
       /\ \A c \in CodesOf(req[r].batch) : redeemed[c] = 0 /\ c \notin codes
       /\ \A q \in Requests \ {r} : req[q].batch # req[r].batch

\* Two batches that are stored have met, and so have a batch that is about to be
\* and every one whose rows its DELETE did not find.
Overlap(b, d) == b = d \/ (backend = "postgres" /\ {b, d} \in beside)

BatchKept ==
  /\ \A c, d \in codes : Overlap(c[1], d[1])
  /\ backend = "postgres" =>
       \A r \in Requests : At(r, "replace") =>
         \A c \in codes : c \in req[r].old \/ Overlap(c[1], req[r].batch)

\* Without an error of a store, the gate overlooks a factor only if the
\* account was without it at some moment since the request arrived.
GateKept ==
  \A r \in Requests :
    /\ At(r, "gate") /\ ~req[r].seen => req[r].err \/ "totp" \in bare[r]
    /\ At(r, "finish") /\ req[r].mfa = "none" => req[r].err \/ bare[r] = Factors

ConfirmKept ==
  totp # None /\ (totp.confirmed \/ \E r \in Requests : At(r, "confirm"))
    => totp.secret \in captured \cup raced

Inv == TypeOK /\ Held /\ CodesKept /\ BatchKept /\ GateKept /\ ConfirmKept

-----------------------------------------------------------------------------
(* What a step of one request leaves alone *)

\* A finished request is a well-formed one.
LEMMA IdleRequest ==
  /\ Idle \in Request /\ Idle.pc = "idle" /\ Idle.secret = None /\ Idle.batch = None
  /\ Idle.seen = FALSE /\ Idle.err = FALSE /\ Idle.mfa = "none"
  BY DEF Idle, Request, PCs, Methods

\* The codes of a batch are codes, and name it.
LEMMA CodesOfBatch ==
  ASSUME NEW b \in Batches
  PROVE  /\ CodesOf(b) \subseteq Code
         /\ \A c \in CodesOf(b) : c[1] = b
         /\ \A d \in Batches : d # b => CodesOf(b) \cap CodesOf(d) = {}
  BY DEF CodesOf, Code

\* If request r becomes q, the requests have their types and what they need.
LEMMA RequestsKept ==
  ASSUME TypeOK, Held, NEW r \in Requests, NEW q \in Request,
         req' = [req EXCEPT ![r] = q],
         q.pc = "enroll" => q.secret \in Secrets,
         q.pc \in {"generate", "delete", "replace"} => q.batch \in Batches
  PROVE  /\ req' \in [Requests -> Request] /\ Held'
         /\ req'[r] = q /\ \A x \in Requests \ {r} : req'[x] = req[x]
<1>1. req'[r] = q /\ \A x \in Requests \ {r} : req'[x] = req[x]
  BY DEF TypeOK
<1>2. req' \in [Requests -> Request]
  BY DEF TypeOK
<1>3. Held'
  BY <1>1 DEF Held, At
<1>4. QED
  BY <1>1, <1>2, <1>3

\* A step that stores and uses no code keeps what is said of codes, if r has
\* no batch afterwards, or the one it had, or a fresh one.
LEMMA CodesFrame ==
  ASSUME TypeOK, CodesKept, NEW r \in Requests,
         \A x \in Requests \ {r} : req'[x] = req[x],
         UNCHANGED <<codes, used, redeemed>>,
         req'[r].batch = None \/ req'[r].batch = req[r].batch
           \/ req'[r].batch \in FreshBatches
  PROVE  CodesKept'
<1>0. \A b : CodesOf(b)' = CodesOf(b)
  BY DEF CodesOf
<1>1. ASSUME NEW x \in Requests, req'[x].batch # None
      PROVE  /\ \A c \in CodesOf(req'[x].batch) : redeemed'[c] = 0 /\ c \notin codes'
             /\ \A q \in Requests \ {x} : req'[q].batch # req'[x].batch
  <2>1. \A y \in Requests : req[y].batch \notin FreshBatches
    BY DEF FreshBatches
  <2>2. \A c \in CodesOf(req'[x].batch) : redeemed[c] = 0 /\ c \notin codes
    <3>1. CASE x = r /\ req'[r].batch \in FreshBatches
      BY <3>1 DEF FreshBatches
    <3>2. CASE ~(x = r /\ req'[r].batch \in FreshBatches)
      BY <1>1, <3>2 DEF CodesKept
    <3>3. QED
      BY <3>1, <3>2
  <2>3. ASSUME NEW q \in Requests \ {x}
        PROVE  req'[q].batch # req'[x].batch
    <3>1. CASE x # r /\ q # r
      BY <1>1, <3>1 DEF CodesKept
    <3>2. CASE x = r
      BY <1>1, <2>1, <3>2 DEF CodesKept
    <3>3. CASE q = r
      BY <1>1, <2>1, <3>3 DEF CodesKept
    <3>4. QED
      BY <3>1, <3>2, <3>3
  <2>4. QED
    BY <2>2, <2>3
<1>2. QED
  BY <1>0, <1>1 DEF CodesKept

\* What Observe records for the requests that a step leaves alone.
LEMMA ObserveKept ==
  ASSUME TypeOK, Observe
  PROVE  /\ bare' \in [Requests -> SUBSET Factors]
         /\ \A x \in Requests : req'[x].pc # "idle" =>
              bare[x] \subseteq bare'[x] /\ Missing \subseteq bare'[x]
<1>1. Missing \subseteq Factors /\ Missing' \subseteq Factors
  BY DEF Missing, Factors
<1>2. QED
  BY <1>1 DEF TypeOK, Observe

\* Pairs of batches that met are remembered, and those that meet now.
LEMMA OverlapKept ==
  ASSUME TypeOK, Held, Observe, backend' = backend
  PROVE  /\ beside' \subseteq SUBSET Batches
         /\ \A b, d : Overlap(b, d) => Overlap(b, d)'
         /\ backend = "postgres" =>
              \A b, d \in Generating : Overlap(b, d)'
<1>1. Generating \subseteq Batches
  BY DEF Generating, Held, At
<1>2. beside \subseteq beside'
  BY DEF Observe
<1>3. ASSUME NEW b \in Generating, NEW d \in Generating, b # d
      PROVE  {b, d} \in beside'
  <2>1. \A e : {b, d} # {e}
    BY <1>3
  <2>2. QED
    BY <2>1 DEF Observe
<1>4. {{b, d} : b, d \in Generating} \subseteq SUBSET Batches
  BY <1>1
<1>5. beside' \subseteq SUBSET Batches
  BY <1>4 DEF TypeOK, Observe
<1>6. QED
  BY <1>2, <1>3, <1>5 DEF Overlap

\* A step that stores no code keeps what is said of batches, if r, when it is
\* about to commit, has just found every row.
LEMMA BatchFrame ==
  ASSUME TypeOK, Held, BatchKept, Observe, backend' = backend, NEW r \in Requests,
         \A x \in Requests \ {r} : req'[x] = req[x],
         codes' = codes,
         req'[r].pc = "replace" => req'[r].old = codes \/ req'[r] = req[r]
  PROVE  BatchKept'
<1>1. \A b, d : Overlap(b, d) => Overlap(b, d)'
  BY OverlapKept
<1>2. \A x \in Requests : At(x, "replace")' =>
         \/ req'[x].old = codes
         \/ At(x, "replace") /\ req'[x] = req[x]
  BY DEF At
<1>3. QED
  BY <1>1, <1>2 DEF BatchKept

\* The gate's verdict on the others stays what it was, and r's is up to r.
LEMMA GateFrame ==
  ASSUME TypeOK, GateKept, Observe, NEW r \in Requests,
         \A x \in Requests \ {r} : req'[x] = req[x],
         req'[r].pc = "gate" /\ ~req'[r].seen => req'[r].err \/ "totp" \in bare'[r],
         req'[r].pc = "finish" /\ req'[r].mfa = "none" => req'[r].err \/ bare'[r] = Factors
  PROVE  GateKept'
<1>1. ASSUME NEW x \in Requests
      PROVE  /\ At(x, "gate")' /\ ~req'[x].seen => req'[x].err \/ "totp" \in bare'[x]
             /\ At(x, "finish")' /\ req'[x].mfa = "none" => req'[x].err \/ bare'[x] = Factors
  <2>1. CASE x = r
    BY <2>1 DEF At
  <2>2. CASE x # r
    <3>1. req'[x] = req[x] /\ (req[x].pc # "idle" => bare[x] \subseteq bare'[x])
          /\ bare'[x] \subseteq Factors
      BY <2>2, ObserveKept
    <3>2. QED
      BY <3>1 DEF GateKept, At
  <2>3. QED
    BY <2>1, <2>2
<1>2. QED
  BY <1>1 DEF GateKept, Factors

\* A step that neither enrolls nor confirms keeps what is said of the secret.
LEMMA ConfirmFrame ==
  ASSUME ConfirmKept, NEW r \in Requests,
         \A x \in Requests \ {r} : req'[x] = req[x],
         totp' = totp, captured \subseteq captured', raced \subseteq raced',
         req'[r].pc # "confirm"
  PROVE  ConfirmKept'
  BY DEF ConfirmKept, At

\* All of it together: r becomes q, and no code is stored or used.
LEMMA Frame ==
  ASSUME Inv, Observe, backend' = backend, NEW r \in Requests, NEW q \in Request,
         req' = [req EXCEPT ![r] = q],
         UNCHANGED <<codes, used, redeemed>>,
         pending' \in BOOLEAN, passkeys' \subseteq Passkeys,
         totp' = totp, captured \subseteq captured', captured' \subseteq Secrets,
         raced' = raced,
         q.pc # "confirm",
         q.pc = "enroll" => q.secret \in Secrets,
         q.pc \in {"generate", "delete", "replace"} => q.batch \in Batches,
         q.batch = None \/ q.batch = req[r].batch \/ q.batch \in FreshBatches,
         q.pc = "gate" /\ ~q.seen => q.err \/ "totp" \in bare'[r],
         q.pc = "finish" /\ q.mfa = "none" => q.err \/ bare'[r] = Factors,
         q.pc = "replace" => q.old = codes \/ q = req[r]
  PROVE  Inv'
<1>1. /\ req' \in [Requests -> Request] /\ Held'
      /\ req'[r] = q /\ \A x \in Requests \ {r} : req'[x] = req[x]
  BY RequestsKept DEF Inv
<1>2. TypeOK'
  BY <1>1, ObserveKept, OverlapKept DEF Inv, TypeOK
<1>3. CodesKept'
  BY <1>1, CodesFrame DEF Inv
<1>4. BatchKept'
  BY <1>1, BatchFrame DEF Inv
<1>5. GateKept'
  BY <1>1, GateFrame DEF Inv
<1>6. ConfirmKept'
  BY <1>1, ConfirmFrame DEF Inv
<1>7. QED
  BY <1>1, <1>2, <1>3, <1>4, <1>5, <1>6 DEF Inv

\* A request that ends, with nothing else changed, keeps the invariant.
LEMMA ReturnFrame ==
  ASSUME Inv, Observe, backend' = backend, NEW r \in Requests, Return(r),
         UNCHANGED <<totp, passkeys, codes, used, captured, raced, redeemed>>,
         pending' \in BOOLEAN
  PROVE  Inv'
<1>1. /\ passkeys \subseteq Passkeys /\ captured \subseteq Secrets
  BY DEF Inv, TypeOK
<1>2. QED
  BY <1>1, IdleRequest, Frame DEF Return

-----------------------------------------------------------------------------
(* The actions *)

\* The enrollment and removal of a factor keep the invariant.
LEMMA FactorSteps ==
  ASSUME Inv, Observe, backend' = backend, NEW r \in Requests,
         \/ EnrollTOTP(r) \/ Upsert(r) \/ ConfirmTOTP(r) \/ Confirm(r) \/ DisableTOTP(r)
         \/ \E k \in Passkeys : FinishRegisterPasskey(r, k) \/ DeletePasskey(r, k)
  PROVE  Inv'
<1>0. /\ TypeOK /\ passkeys \subseteq Passkeys /\ captured \subseteq Secrets
      /\ raced \subseteq Secrets /\ pending \in BOOLEAN /\ req[r] \in Request
      /\ totp \in TOTPSecret \cup {None}
  BY DEF Inv, TypeOK
<1>n. None \notin TOTPSecret
  BY NoneAssumption
<1>1. CASE EnrollTOTP(r)
  <2>1. PICK s \in FreshSecrets :
          req' = [req EXCEPT ![r] = [Idle EXCEPT !.pc = "enroll", !.secret = s]]
    BY <1>1 DEF EnrollTOTP
  <2> DEFINE q == [Idle EXCEPT !.pc = "enroll", !.secret = s]
  <2>2. q \in Request /\ q.pc = "enroll" /\ q.secret = s /\ q.batch = None /\ s \in Secrets
    BY DEF FreshSecrets, Idle, Request, PCs, Methods
  <2>3. req' = [req EXCEPT ![r] = q]
    BY <2>1
  <2> HIDE DEF q
  <2>4. QED
    BY <1>0, <1>1, <2>2, <2>3, Frame DEF EnrollTOTP
<1>2. CASE Upsert(r)
  <2>0. /\ At(r, "enroll") /\ Return(r) /\ UNCHANGED <<passkeys, codes, used, pending, captured, redeemed>>
        /\ totp' = [secret |-> req[r].secret, confirmed |-> FALSE]
        /\ raced' = raced \cup {s \in {req[r].secret} : \E q \in Requests : At(q, "confirm")}
    BY <1>2 DEF Upsert
  <2>1. /\ req' \in [Requests -> Request] /\ Held'
        /\ req'[r] = Idle /\ \A x \in Requests \ {r} : req'[x] = req[x]
    BY <2>0, IdleRequest, RequestsKept DEF Inv, Return
  <2>2. req[r].secret \in Secrets
    BY <2>0 DEF Inv, Held
  <2>3. totp' \in TOTPSecret /\ raced' \subseteq Secrets
    BY <1>0, <2>0, <2>2 DEF TOTPSecret
  <2>4. TypeOK'
    BY <1>0, <2>0, <2>1, <2>3, ObserveKept, OverlapKept DEF Inv, TypeOK
  <2>5. CodesKept'
    BY <2>0, <2>1, IdleRequest, CodesFrame DEF Inv
  <2>6. BatchKept'
    BY <2>0, <2>1, IdleRequest, BatchFrame DEF Inv
  <2>7. GateKept'
    BY <2>1, IdleRequest, GateFrame DEF Inv
  <2>8. ConfirmKept'
    <3>1. totp'.secret = req[r].secret /\ totp'.confirmed = FALSE
      BY <2>0
    <3>2. (\E x \in Requests : At(x, "confirm")') => \E x \in Requests : At(x, "confirm")
      BY <2>1, IdleRequest DEF At
    <3>3. (\E x \in Requests : At(x, "confirm")) => req[r].secret \in raced'
      BY <2>0
    <3>4. QED
      BY <3>1, <3>2, <3>3 DEF ConfirmKept
  <2>9. QED
    BY <2>1, <2>4, <2>5, <2>6, <2>7, <2>8 DEF Inv
<1>3. CASE ConfirmTOTP(r)
  <2> DEFINE q == [Idle EXCEPT !.pc = "confirm"]
  <2>0. /\ req' = [req EXCEPT ![r] = q] /\ captured' = captured \cup {totp.secret}
        /\ totp # None
        /\ UNCHANGED <<totp, passkeys, codes, used, pending, raced, redeemed>>
    BY <1>3 DEF ConfirmTOTP
  <2>1. q \in Request /\ q.pc = "confirm" /\ q.batch = None
    BY DEF Idle, Request, PCs, Methods
  <2> HIDE DEF q
  <2>2. /\ req' \in [Requests -> Request] /\ Held'
        /\ req'[r] = q /\ \A x \in Requests \ {r} : req'[x] = req[x]
    BY <2>0, <2>1, RequestsKept DEF Inv
  <2>3. captured' \subseteq Secrets
    BY <1>0, <1>n, <2>0 DEF TOTPSecret
  <2>4. TypeOK'
    BY <1>0, <2>0, <2>2, <2>3, ObserveKept, OverlapKept DEF Inv, TypeOK
  <2>5. CodesKept'
    BY <2>0, <2>1, <2>2, CodesFrame DEF Inv
  <2>6. BatchKept'
    BY <2>0, <2>1, <2>2, BatchFrame DEF Inv
  <2>7. GateKept'
    BY <2>1, <2>2, GateFrame DEF Inv
  <2>8. ConfirmKept'
    BY <2>0 DEF ConfirmKept
  <2>9. QED
    BY <2>2, <2>4, <2>5, <2>6, <2>7, <2>8 DEF Inv
<1>4. CASE Confirm(r)
  <2>0. /\ At(r, "confirm") /\ Return(r)
        /\ totp' = IF totp = None THEN None ELSE [totp EXCEPT !.confirmed = TRUE]
        /\ UNCHANGED <<passkeys, codes, used, pending, captured, raced, redeemed>>
    BY <1>4 DEF Confirm
  <2>1. /\ req' \in [Requests -> Request] /\ Held'
        /\ req'[r] = Idle /\ \A x \in Requests \ {r} : req'[x] = req[x]
    BY <2>0, IdleRequest, RequestsKept DEF Inv, Return
  <2>2. /\ totp' \in TOTPSecret \cup {None}
        /\ totp # None => totp'.secret = totp.secret
    BY <1>0, <1>n, <2>0 DEF TOTPSecret
  <2>4. TypeOK'
    BY <1>0, <2>0, <2>1, <2>2, ObserveKept, OverlapKept DEF Inv, TypeOK
  <2>5. CodesKept'
    BY <2>0, <2>1, IdleRequest, CodesFrame DEF Inv
  <2>6. BatchKept'
    BY <2>0, <2>1, IdleRequest, BatchFrame DEF Inv
  <2>7. GateKept'
    BY <2>1, IdleRequest, GateFrame DEF Inv
  <2>8. ConfirmKept'
    BY <2>0, <2>2 DEF Inv, ConfirmKept
  <2>9. QED
    BY <2>1, <2>4, <2>5, <2>6, <2>7, <2>8 DEF Inv
<1>5. CASE DisableTOTP(r)
  <2>0. /\ totp' = None /\ At(r, "idle")
        /\ UNCHANGED <<passkeys, codes, used, pending, req, captured, raced, redeemed>>
    BY <1>5 DEF DisableTOTP
  <2>1. TypeOK' /\ Held' /\ ConfirmKept'
    BY <1>0, <2>0, ObserveKept, OverlapKept
    DEF Inv, TypeOK, Held, ConfirmKept, At
  <2>2. CodesKept'
    BY <2>0, CodesFrame DEF Inv
  <2>3. GateKept'
    BY <2>0, GateFrame DEF Inv, At
  <2>4. BatchKept'
    BY <2>0, BatchFrame DEF Inv
  <2>5. QED
    BY <2>1, <2>2, <2>3, <2>4 DEF Inv
<1>6. CASE \E k \in Passkeys : FinishRegisterPasskey(r, k) \/ DeletePasskey(r, k)
  <2>0. /\ passkeys' \subseteq Passkeys /\ At(r, "idle")
        /\ UNCHANGED <<totp, codes, used, pending, req, captured, raced, redeemed>>
    BY <1>0, <1>6 DEF FinishRegisterPasskey, DeletePasskey
  <2>1. req' = [req EXCEPT ![r] = req[r]]
    BY <1>0, <2>0 DEF TypeOK
  <2>2. QED
    BY <1>0, <2>0, <2>1, Frame DEF At
<1>7. QED
  BY <1>1, <1>2, <1>3, <1>4, <1>5, <1>6

\* The generation, replacement and use of recovery codes keep the invariant.
LEMMA CodeSteps ==
  ASSUME Inv, Observe, backend' = backend, NEW r \in Requests,
         \/ GenerateRecoveryCodes(r) \/ GeneratePasskeys(r)
         \/ ReplaceDelete(r) \/ ReplaceCommit(r)
         \/ \E c \in Code : CompleteLoginWithRecoveryCode(r, c)
  PROVE  Inv'
<1>0. /\ TypeOK /\ passkeys \subseteq Passkeys /\ captured \subseteq Secrets
      /\ pending \in BOOLEAN /\ req[r] \in Request
      /\ codes \subseteq Code /\ used \subseteq codes /\ redeemed \in [Code -> Nat]
  BY DEF Inv, TypeOK
<1>1. CASE GenerateRecoveryCodes(r)
  <2>1. PICK b \in FreshBatches, totpSeen \in OrMissed(Confirmed) :
          req' = [req EXCEPT ![r] = [Idle EXCEPT !.pc = IF totpSeen THEN "delete" ELSE "generate",
                                                 !.batch = b]]
    BY <1>1 DEF GenerateRecoveryCodes
  <2> DEFINE q == [Idle EXCEPT !.pc = IF totpSeen THEN "delete" ELSE "generate", !.batch = b]
  <2>2. q \in Request /\ q.pc \in {"delete", "generate"} /\ q.batch = b /\ b \in Batches
    BY DEF FreshBatches, Idle, Request, PCs, Methods
  <2>3. req' = [req EXCEPT ![r] = q]
    BY <2>1
  <2> HIDE DEF q
  <2>4. QED
    BY <1>0, <1>1, <2>2, <2>3, Frame DEF GenerateRecoveryCodes
<1>2. CASE GeneratePasskeys(r)
  <2>0. /\ At(r, "generate")
        /\ UNCHANGED <<totp, passkeys, codes, used, pending, captured, raced, redeemed>>
    BY <1>2 DEF GeneratePasskeys
  <2>1. CASE Return(r)
    BY <1>0, <2>0, <2>1, ReturnFrame
  <2>2. CASE req' = [req EXCEPT ![r] = [@ EXCEPT !.pc = "delete"]]
    <3> DEFINE q == [req[r] EXCEPT !.pc = "delete"]
    <3>1. q \in Request /\ q.pc = "delete" /\ q.batch = req[r].batch
      BY <1>0 DEF Request, PCs
    <3>2. req' = [req EXCEPT ![r] = q] /\ req[r].batch \in Batches
      BY <2>0, <2>2 DEF Inv, Held, At
    <3> HIDE DEF q
    <3>3. QED
      BY <1>0, <2>0, <3>1, <3>2, Frame
  <2>3. QED
    BY <1>2, <2>1, <2>2 DEF GeneratePasskeys, Return
<1>3. CASE ReplaceDelete(r)
  <2> DEFINE q == [req[r] EXCEPT !.pc = "replace", !.old = codes]
  <2>0. /\ At(r, "delete") /\ req' = [req EXCEPT ![r] = q]
        /\ UNCHANGED <<totp, passkeys, codes, used, pending, captured, raced, redeemed>>
    BY <1>3 DEF ReplaceDelete
  <2>1. q \in Request /\ q.pc = "replace" /\ q.batch = req[r].batch /\ q.old = codes
    BY <1>0 DEF Request, PCs
  <2>2. req[r].batch \in Batches
    BY <2>0 DEF Inv, Held, At
  <2> HIDE DEF q
  <2>3. QED
    BY <1>0, <2>0, <2>1, <2>2, Frame
<1>4. CASE ReplaceCommit(r)
  <2> DEFINE b == req[r].batch
             old == Replaced(r)
  <2>0. /\ At(r, "replace") /\ Return(r)
        /\ codes' = (codes \ old) \cup CodesOf(b) /\ used' = used \ old
        /\ UNCHANGED <<totp, passkeys, pending, captured, raced, redeemed>>
    BY <1>4 DEF ReplaceCommit
  <2>1. /\ req' \in [Requests -> Request] /\ Held'
        /\ req'[r] = Idle /\ \A x \in Requests \ {r} : req'[x] = req[x]
    BY <2>0, IdleRequest, RequestsKept DEF Inv, Return
  <2>2. b \in Batches /\ b # None
    BY <2>0, NoneAssumption DEF Inv, Held, At
  <2>3. CodesOf(b) \subseteq Code /\ \A c \in CodesOf(b) : c[1] = b
    BY <2>2, CodesOfBatch
  <2>4. old = IF backend = "postgres" THEN req[r].old ELSE codes
    BY DEF Replaced
  <2> HIDE DEF old
  <2>5. TypeOK'
    BY <1>0, <2>0, <2>1, <2>3, ObserveKept, OverlapKept DEF Inv, TypeOK
  <2>6. CodesKept'
    <3>1. \A c \in codes' : redeemed'[c] = 0 \/ c \in used'
      BY <2>0, <2>2 DEF Inv, CodesKept
    <3>2. ASSUME NEW x \in Requests, req'[x].batch # None
          PROVE  /\ \A c \in CodesOf(req'[x].batch) : redeemed'[c] = 0 /\ c \notin codes'
                 /\ \A q \in Requests \ {x} : req'[q].batch # req'[x].batch
      <4>1. x # r /\ req'[x] = req[x]
        BY <2>1, <3>2, IdleRequest
      <4>2. req[x].batch \in Batches /\ req[x].batch # b
        BY <1>0, <2>2, <3>2, <4>1 DEF Inv, CodesKept, TypeOK, Request
      <4>3. CodesOf(b) \cap CodesOf(req[x].batch) = {}
        BY <2>2, <4>2, CodesOfBatch
      <4>4. \A c \in CodesOf(req[x].batch) : redeemed[c] = 0 /\ c \notin codes
        BY <3>2, <4>1 DEF Inv, CodesKept
      <4>5. \A q \in Requests \ {x} : req'[q].batch # req[x].batch
        BY <2>1, <3>2, <4>1, IdleRequest DEF Inv, CodesKept
      <4>6. QED
        BY <2>0, <4>1, <4>3, <4>4, <4>5
    <3>3. \A s : CodesOf(s)' = CodesOf(s)
      BY DEF CodesOf
    <3>4. \A c \in Code : redeemed'[c] <= 1
      BY <2>0 DEF Inv, CodesKept
    <3>5. QED
      BY <3>1, <3>2, <3>3, <3>4 DEF CodesKept
  <2>7. BatchKept'
    <3>1. /\ \A d, e : Overlap(d, e) => Overlap(d, e)'
          /\ backend = "postgres" => \A d, e \in Generating : Overlap(d, e)'
      BY OverlapKept DEF Inv
    <3>2. \A d, e : Overlap(d, e) = Overlap(e, d)
      <4>1. \A d, e : {d, e} = {e, d}
        OBVIOUS
      <4>2. QED
        BY <4>1 DEF Overlap
    <3>3. ASSUME NEW c \in codes \ old
          PROVE  Overlap(c[1], b)
      BY <2>0, <2>4, <3>3 DEF Inv, BatchKept
    <3>4. ASSUME NEW c \in codes', NEW d \in codes'
          PROVE  Overlap(c[1], d[1])'
      <4>1. \A e : Overlap(e, e)'
        BY DEF Overlap
      <4>2. \A e \in codes' : e \in codes \ old \/ e[1] = b
        BY <2>0, <2>3
      <4>3. c \in codes /\ d \in codes => Overlap(c[1], d[1])
        BY DEF Inv, BatchKept
      <4>4. QED
        BY <3>1, <3>2, <3>3, <4>1, <4>2, <4>3
    <3>5. ASSUME backend = "postgres", NEW x \in Requests, At(x, "replace")', NEW c \in codes'
          PROVE  c \in req'[x].old \/ Overlap(c[1], req[x].batch)'
      <4>1. x # r /\ req'[x] = req[x] /\ At(x, "replace")
        BY <2>1, <3>5, IdleRequest DEF At
      <4>2. b \in Generating /\ req[x].batch \in Generating
        BY <2>0, <4>1 DEF Generating
      <4>3. c \in codes => c \in req[x].old \/ Overlap(c[1], req[x].batch)
        BY <3>5, <4>1 DEF Inv, BatchKept
      <4>4. c \in codes \/ c[1] = b
        BY <2>0, <2>3
      <4>5. c \in req[x].old \/ req[x].batch = c[1] \/ {c[1], req[x].batch} \in beside'
        BY <3>1, <3>5, <4>2, <4>3, <4>4 DEF Overlap
      <4>6. QED
        BY <2>0, <3>5, <4>1, <4>5 DEF Overlap
    <3>6. QED
      BY <3>4, <3>5 DEF BatchKept, Overlap
  <2>8. GateKept'
    BY <2>1, IdleRequest, GateFrame DEF Inv
  <2>9. ConfirmKept'
    BY <2>0, <2>1, IdleRequest, ConfirmFrame DEF Inv
  <2>10. QED
    BY <2>1, <2>5, <2>6, <2>7, <2>8, <2>9 DEF Inv
<1>5. ASSUME NEW c \in Code, CompleteLoginWithRecoveryCode(r, c)
      PROVE  Inv'
  <2> DEFINE q == [Idle EXCEPT !.pc = "finish", !.mfa = "recovery_code"]
  <2>0. /\ req' = [req EXCEPT ![r] = q] /\ c \in codes /\ c \notin used
        /\ used' = used \cup {c} /\ redeemed' = [redeemed EXCEPT ![c] = @ + 1]
        /\ UNCHANGED <<totp, passkeys, codes, pending, captured, raced>>
    BY <1>5 DEF CompleteLoginWithRecoveryCode, Consumable
  <2>1. q \in Request /\ q.pc = "finish" /\ q.mfa = "recovery_code" /\ q.batch = None
    BY DEF Idle, Request, PCs, Methods
  <2> HIDE DEF q
  <2>2. /\ req' \in [Requests -> Request] /\ Held'
        /\ req'[r] = q /\ \A x \in Requests \ {r} : req'[x] = req[x]
    BY <2>0, <2>1, RequestsKept DEF Inv
  <2>3. redeemed[c] = 0
    BY <2>0 DEF Inv, CodesKept
  <2>4. /\ redeemed' \in [Code -> Nat] /\ redeemed'[c] = 1
        /\ \A d \in Code \ {c} : redeemed'[d] = redeemed[d]
    BY <1>0, <2>0, <2>3
  <2>5. TypeOK'
    BY <1>0, <2>0, <2>2, <2>4, ObserveKept, OverlapKept DEF Inv, TypeOK
  <2>6. CodesKept'
    <3>1. \A d \in Code : redeemed'[d] <= 1
      BY <2>4 DEF Inv, CodesKept
    <3>2. \A d \in codes' : redeemed'[d] = 0 \/ d \in used'
      BY <1>0, <2>0, <2>4 DEF Inv, CodesKept
    <3>3. ASSUME NEW x \in Requests, req'[x].batch # None
          PROVE  /\ \A d \in CodesOf(req'[x].batch) : redeemed'[d] = 0 /\ d \notin codes'
                 /\ \A y \in Requests \ {x} : req'[y].batch # req'[x].batch
      <4>1. x # r /\ req'[x] = req[x]
        BY <2>1, <2>2, <3>3
      <4>2. \A d \in CodesOf(req[x].batch) : redeemed[d] = 0 /\ d \notin codes
        BY <3>3, <4>1 DEF Inv, CodesKept
      <4>3. CodesOf(req[x].batch) \subseteq Code
        <5>1. req[x].batch \in Batches
          BY <1>0, <3>3, <4>1 DEF TypeOK, Request
        <5>2. QED
          BY <5>1, CodesOfBatch
      <4>4. \A y \in Requests \ {x} : req'[y].batch # req[x].batch
        BY <2>1, <2>2, <3>3, <4>1 DEF Inv, CodesKept
      <4>5. QED
        BY <2>0, <2>4, <4>1, <4>2, <4>3, <4>4
    <3>4. \A s : CodesOf(s)' = CodesOf(s)
      BY DEF CodesOf
    <3>5. QED
      BY <3>1, <3>2, <3>3, <3>4 DEF CodesKept
  <2>7. BatchKept'
    BY <2>0, <2>1, <2>2, BatchFrame DEF Inv
  <2>8. GateKept'
    BY <2>1, <2>2, GateFrame DEF Inv
  <2>9. ConfirmKept'
    BY <2>0, <2>1, <2>2, ConfirmFrame DEF Inv
  <2>10. QED
    BY <2>2, <2>5, <2>6, <2>7, <2>8, <2>9 DEF Inv
<1>6. QED
  BY <1>1, <1>2, <1>3, <1>4, <1>5

\* The gate and the completions that use no recovery code keep the invariant.
LEMMA GateSteps ==
  ASSUME Inv, Observe, backend' = backend, NEW r \in Requests,
         \/ GateTOTP(r) \/ GatePasskeys(r) \/ CompleteLoginWithTOTP(r)
         \/ CompleteLoginWithWebAuthn(r) \/ FinishLogin(r) \/ StoreError(r)
  PROVE  Inv'
<1>0. /\ TypeOK /\ passkeys \subseteq Passkeys /\ captured \subseteq Secrets
      /\ pending \in BOOLEAN /\ req[r] \in Request /\ totp \in TOTPSecret \cup {None}
  BY DEF Inv, TypeOK
<1>n. None \notin TOTPSecret
  BY NoneAssumption
<1>1. CASE GateTOTP(r)
  <2>1. PICK totpSeen \in OrMissed(Confirmed) :
          req' = [req EXCEPT ![r] = [Idle EXCEPT !.pc = "gate", !.seen = totpSeen,
                                                 !.err = totpSeen # Confirmed]]
    BY <1>1 DEF GateTOTP
  <2> DEFINE q == [Idle EXCEPT !.pc = "gate", !.seen = totpSeen, !.err = totpSeen # Confirmed]
  <2>2. totpSeen \in BOOLEAN
    BY <2>1 DEF OrMissed, Confirmed
  <2>3. q \in Request /\ q.pc = "gate" /\ q.seen = totpSeen
        /\ q.err = (totpSeen # Confirmed) /\ q.batch = None
    BY <2>2 DEF Idle, Request, PCs, Methods
  <2>4. req' = [req EXCEPT ![r] = q]
    BY <2>1
  <2> HIDE DEF q
  <2>5. req'[r].pc # "idle"
    BY <1>0, <2>3, <2>4 DEF TypeOK
  <2>6. ~Confirmed => "totp" \in bare'[r]
    BY <1>0, <2>5, ObserveKept DEF Missing
  <2>7. ~q.seen => q.err \/ "totp" \in bare'[r]
    BY <2>2, <2>3, <2>6
  <2>8. QED
    BY <1>0, <1>1, <2>3, <2>4, <2>7, Frame DEF GateTOTP
<1>2. CASE GatePasskeys(r)
  <2>0. At(r, "gate") /\ UNCHANGED <<totp, passkeys, codes, used, captured, raced, redeemed>>
    BY <1>2 DEF GatePasskeys
  <2>1. PICK keysSeen \in OrMissed(passkeys # {}) :
          \/ pending' = TRUE /\ Return(r)
          \/ /\ ~(req[r].seen \/ keysSeen)
             /\ req' = [req EXCEPT ![r].pc = "finish",
                                   ![r].err = @ \/ keysSeen # (passkeys # {})]
             /\ UNCHANGED pending
    BY <1>2 DEF GatePasskeys
  <2>2. CASE pending' = TRUE /\ Return(r)
    BY <2>0, <2>2, ReturnFrame
  <2>3. CASE /\ ~(req[r].seen \/ keysSeen)
             /\ req' = [req EXCEPT ![r].pc = "finish",
                                   ![r].err = @ \/ keysSeen # (passkeys # {})]
             /\ UNCHANGED pending
    <3> DEFINE q == [req[r] EXCEPT !.pc = "finish",
                                   !.err = req[r].err \/ keysSeen # (passkeys # {})]
    <3>1. q \in Request /\ q.pc = "finish" /\ q.batch = req[r].batch
          /\ q.err = (req[r].err \/ keysSeen # (passkeys # {}))
      BY <1>0 DEF Request, PCs
    <3>2. req' = [req EXCEPT ![r] = q]
      BY <2>3
    <3>3. req'[r].pc # "idle"
      BY <1>0, <3>1, <3>2 DEF TypeOK
    <3>4. bare[r] \subseteq bare'[r] /\ bare'[r] \subseteq Factors
          /\ (passkeys = {} => "webauthn" \in bare'[r])
      BY <1>0, <3>3, ObserveKept DEF Missing
    <3>5. req[r].err \/ "totp" \in bare[r]
      BY <2>0, <2>3 DEF Inv, GateKept
    <3>6. q.err \/ passkeys = {}
      BY <2>3, <3>1
    <3>7. q.err \/ bare'[r] = Factors
      BY <3>1, <3>4, <3>5, <3>6 DEF Factors
    <3> HIDE DEF q
    <3>8. QED
      BY <1>0, <2>0, <2>3, <3>1, <3>2, <3>7, Frame
  <2>4. QED
    BY <2>1, <2>2, <2>3
<1>3. CASE CompleteLoginWithTOTP(r)
  <2> DEFINE q == [Idle EXCEPT !.pc = "finish", !.mfa = "totp"]
  <2>0. /\ req' = [req EXCEPT ![r] = q] /\ captured' = captured \cup {totp.secret}
        /\ Confirmed /\ UNCHANGED <<totp, passkeys, codes, used, pending, raced, redeemed>>
    BY <1>3 DEF CompleteLoginWithTOTP
  <2>1. q \in Request /\ q.pc = "finish" /\ q.mfa = "totp" /\ q.batch = None
    BY DEF Idle, Request, PCs, Methods
  <2>2. captured' \subseteq Secrets
    BY <1>0, <1>n, <2>0 DEF Confirmed, TOTPSecret
  <2> HIDE DEF q
  <2>3. QED
    BY <1>0, <2>0, <2>1, <2>2, Frame
<1>4. CASE CompleteLoginWithWebAuthn(r)
  <2> DEFINE q == [Idle EXCEPT !.pc = "finish", !.mfa = "webauthn"]
  <2>0. /\ req' = [req EXCEPT ![r] = q]
        /\ UNCHANGED <<totp, passkeys, codes, used, pending, captured, raced, redeemed>>
    BY <1>4 DEF CompleteLoginWithWebAuthn
  <2>1. q \in Request /\ q.pc = "finish" /\ q.mfa = "webauthn" /\ q.batch = None
    BY DEF Idle, Request, PCs, Methods
  <2> HIDE DEF q
  <2>2. QED
    BY <1>0, <2>0, <2>1, Frame
<1>5. CASE FinishLogin(r) \/ StoreError(r)
  BY <1>0, <1>5, ReturnFrame DEF FinishLogin, StoreError
<1>6. QED
  BY <1>1, <1>2, <1>3, <1>4, <1>5

-----------------------------------------------------------------------------

\* The invariant holds of an account with no factor and no request.
LEMMA InitInv == Init => Inv
<1> SUFFICES ASSUME Init PROVE Inv
  OBVIOUS
<1>1. \A r \in Requests : req[r] = Idle
  BY DEF Init
<1>2. TypeOK
  BY IdleRequest DEF Init, TypeOK
<1>3. Held /\ CodesKept /\ GateKept
  BY <1>1, IdleRequest DEF Init, Held, CodesKept, GateKept, At
<1>4. BatchKept /\ ConfirmKept
  BY <1>1, IdleRequest DEF Init, BatchKept, ConfirmKept, At
<1>5. QED
  BY <1>2, <1>3, <1>4 DEF Inv

\* No step undoes it.
LEMMA NextInv == Inv /\ [Next]_vars => Inv'
<1> SUFFICES ASSUME Inv, [Next]_vars PROVE Inv'
  OBVIOUS
<1>1. CASE UNCHANGED vars
  <2>1. \A b : CodesOf(b)' = CodesOf(b)
    BY DEF CodesOf
  <2>2. QED
    BY <1>1, <2>1
    DEF vars, Inv, TypeOK, Held, CodesKept, BatchKept, Overlap, GateKept, ConfirmKept, At
<1>2. CASE Next
  <2>1. Observe /\ backend' = backend
    BY <1>2 DEF Next
  <2>2. ASSUME NEW r \in Requests, Arrive(r) \/ Continue(r) \/ StoreError(r)
        PROVE  Inv'
    BY <2>1, <2>2, FactorSteps, CodeSteps, GateSteps DEF Arrive, Continue
  <2>3. CASE PendingExpires
    <3>1. /\ pending' = FALSE
          /\ UNCHANGED <<totp, passkeys, codes, used, req, captured, raced, redeemed>>
      BY <2>3 DEF PendingExpires
    <3>2. TypeOK' /\ Held' /\ BatchKept' /\ ConfirmKept'
      BY <2>1, <3>1, ObserveKept, OverlapKept
      DEF Inv, TypeOK, Held, BatchKept, ConfirmKept, At
    <3>3. CodesKept'
      <4>1. \A b : CodesOf(b)' = CodesOf(b)
        BY DEF CodesOf
      <4>2. QED
        BY <3>1, <4>1 DEF Inv, CodesKept
    <3>4. GateKept'
      <4>1. \A x \in Requests : req[x].pc # "idle" =>
              bare[x] \subseteq bare'[x] /\ bare'[x] \subseteq Factors
        BY <2>1, <3>1, ObserveKept DEF Inv
      <4>2. QED
        BY <3>1, <4>1 DEF Inv, GateKept, At, Factors
    <3>5. QED
      BY <3>2, <3>3, <3>4 DEF Inv
  <2>4. QED
    BY <1>2, <2>2, <2>3 DEF Next
<1>3. QED
  BY <1>1, <1>2

\* The invariant holds of every state that the requests can reach.
THEOREM AlwaysInv == Spec => []Inv
  BY InitInv, NextInv, PTL DEF Spec

\* The rows, the requests and the histories keep their types.
THEOREM TypeCorrect == Spec => []TypeOK
  BY AlwaysInv, PTL DEF Inv

\* However the uses of a recovery code and the replacement of its batch
\* interleave, and whichever store calls fail, no code completes two logins.
THEOREM AlwaysCodeSingleUse == Spec => []CodeSingleUse
<1>1. Inv => CodeSingleUse
  BY DEF Inv, CodesKept, CodeSingleUse
<1>2. QED
  BY <1>1, AlwaysInv, PTL

\* The codes that work are of one batch, whoever generates batches at the same
\* time, or on Postgres of batches whose generations overlapped.
THEOREM AlwaysWorkingBatchesOverlapped == Spec => []WorkingBatchesOverlapped
<1>1. Inv => WorkingBatchesOverlapped
  BY DEF Inv, BatchKept, Overlap, WorkingBatchesOverlapped
<1>2. QED
  BY <1>1, AlwaysInv, PTL

\* A login that gets past the gate without a second factor met, for each
\* factor, a moment when the account was without it, or an error of a store.
THEOREM AlwaysGateNotSkipped == Spec => []GateNotSkipped
<1>1. Inv => GateNotSkipped
  BY DEF Inv, GateKept, GateNotSkipped
<1>2. QED
  BY <1>1, AlwaysInv, PTL

\* A secret that gates logins had a valid code presented for it, or was
\* enrolled in the middle of the confirmation of another.
THEOREM AlwaysConfirmedWasCaptured == Spec => []ConfirmedWasCaptured
<1>1. Inv => ConfirmedWasCaptured
  BY DEF Inv, ConfirmKept, ConfirmedWasCaptured, Confirmed
<1>2. QED
  BY <1>1, AlwaysInv, PTL

-----------------------------------------------------------------------------
(* The codes as an abstract account of them *)

\* A step that stores and uses no code is none of the codes' life.
LEMMA CodesAside ==
  ASSUME UNCHANGED <<backend, codes, used, redeemed>>
  PROVE  UNCHANGED OneTime!vars
  BY DEF OneTime!vars

\* ReplaceAll's commit is one replacement.
LEMMA CommitReplaces ==
  ASSUME Inv, NEW r \in Requests, ReplaceCommit(r), UNCHANGED backend
  PROVE  OneTime!Next
<1> DEFINE live == codes \ used
           batch == CodesOf(req[r].batch)
           old == Replaced(r) \cap live
<1>1. /\ req[r].batch \in Batches /\ req[r].batch # None
      /\ codes' = (codes \ Replaced(r)) \cup batch
      /\ used' = used \ Replaced(r) /\ redeemed' = redeemed
  BY NoneAssumption DEF Inv, Held, ReplaceCommit, At
<1>2. \A c \in batch : redeemed[c] = 0 /\ c \notin codes /\ c \notin used
  BY <1>1 DEF Inv, CodesKept, TypeOK
<1>3. batch \cap live = {} /\ old \in SUBSET live
  BY <1>2
<1>4. (backend # "postgres") => old = live
  BY DEF Replaced
<1>5. (codes \ used)' = (live \ old) \cup batch
  BY <1>1, <1>2
<1>6. OneTime!Replace(batch, old)
  BY <1>1, <1>2, <1>3, <1>4, <1>5 DEF OneTime!Replace
<1>7. QED
  BY <1>1, <1>3, <1>6 DEF OneTime!Next

\* A login that a code completes uses a code that works.
LEMMA CompletionRedeems ==
  ASSUME NEW r \in Requests, NEW c \in Code, CompleteLoginWithRecoveryCode(r, c),
         UNCHANGED backend
  PROVE  OneTime!Next
<1>1. /\ c \in codes \ used /\ codes' = codes /\ used' = used \cup {c}
      /\ redeemed' = [redeemed EXCEPT ![c] = @ + 1]
  BY DEF CompleteLoginWithRecoveryCode, Consumable
<1>2. (codes \ used)' = (codes \ used) \ {c}
  BY <1>1
<1>3. OneTime!Redeem(c)
  BY <1>1, <1>2 DEF OneTime!Redeem
<1>4. QED
  BY <1>1, <1>3 DEF OneTime!Next

LEMMA OneTimeStep ==
  ASSUME Inv, [Next]_vars
  PROVE  [OneTime!Next]_(OneTime!vars)
<1>1. CASE UNCHANGED vars
  BY <1>1, CodesAside DEF vars
<1>2. CASE PendingExpires /\ UNCHANGED backend
  BY <1>2, CodesAside DEF PendingExpires
<1>3. ASSUME NEW r \in Requests, Arrive(r), UNCHANGED backend
      PROVE  [OneTime!Next]_(OneTime!vars)
  <2>1. CASE \E c \in Code : CompleteLoginWithRecoveryCode(r, c)
    BY <1>3, <2>1, CompletionRedeems
  <2>2. CASE \/ EnrollTOTP(r) \/ ConfirmTOTP(r) \/ DisableTOTP(r)
             \/ \E k \in Passkeys : FinishRegisterPasskey(r, k) \/ DeletePasskey(r, k)
             \/ GenerateRecoveryCodes(r) \/ GateTOTP(r)
             \/ CompleteLoginWithTOTP(r) \/ CompleteLoginWithWebAuthn(r)
    BY <1>3, <2>2, CodesAside
       DEF EnrollTOTP, ConfirmTOTP, DisableTOTP, FinishRegisterPasskey, DeletePasskey,
           GenerateRecoveryCodes, GateTOTP, CompleteLoginWithTOTP, CompleteLoginWithWebAuthn
  <2>3. QED
    BY <1>3, <2>1, <2>2 DEF Arrive
<1>4. ASSUME NEW r \in Requests, Continue(r) \/ StoreError(r), UNCHANGED backend
      PROVE  [OneTime!Next]_(OneTime!vars)
  <2>1. CASE ReplaceCommit(r)
    BY <1>4, <2>1, CommitReplaces
  <2>2. CASE \/ Upsert(r) \/ Confirm(r) \/ GeneratePasskeys(r) \/ ReplaceDelete(r)
             \/ GatePasskeys(r) \/ FinishLogin(r) \/ StoreError(r)
    BY <1>4, <2>2, CodesAside
       DEF Upsert, Confirm, GeneratePasskeys, ReplaceDelete, GatePasskeys, FinishLogin,
           StoreError
  <2>3. QED
    BY <1>4, <2>1, <2>2 DEF Continue
<1>5. QED
  BY <1>1, <1>2, <1>3, <1>4 DEF Next

\* Recovery codes come in batches, leave one at a time as they complete a
\* login, and never come back; where the store replaces all of them there is
\* one batch.
THEOREM AlwaysCodesAreOneTime == Spec => CodesAreOneTime
<1>1. Init => OneTime!Init
  <2>1. UNION {CodesOf(b) : b \in Batches} = Code
    BY DEF CodesOf, Code
  <2>2. QED
    BY <2>1 DEF Init, OneTime!Init
<1>2. Inv /\ [Next]_vars => [OneTime!Next]_(OneTime!vars)
  BY OneTimeStep
<1>3. QED
  BY <1>1, <1>2, AlwaysInv, PTL DEF Spec, CodesAreOneTime, OneTime!Spec

=============================================================================
