---------------------------- MODULE SecondFactor ----------------------------
(***************************************************************************)
(* The second factors of one account: TOTP enrollment, passkeys, recovery  *)
(* codes, the gate that completePrimaryAuth puts after every primary       *)
(* factor, and the three ways to complete a login that it paused.          *)
(*                                                                         *)
(* A pending-login token is a signed value and no row: any number of them  *)
(* are outstanding, each good for any number of completions until it       *)
(* expires, so pending only says whether one is.                           *)
(***************************************************************************)
EXTENDS Naturals

CONSTANTS Secrets,    \* TOTP secrets; the bound on enrollments
          Passkeys,   \* credentials the user may register
          Batches,    \* batches of recovery codes; the bound on generations
          BatchSize,  \* recovery codes in a batch (recoveryCodeCount)
          Requests,   \* goroutines serving requests
          Backends,   \* the stores the engine may be configured with
          StoreFails, \* may a store call return an error?
          None        \* the absent row, secret or batch

ASSUME BatchSizeAssumption == BatchSize \in Nat \ {0}
ASSUME BackendsAssumption == Backends \subseteq {"postgres", "sqlite", "memory"}
ASSUME StoreFailsAssumption == StoreFails \in BOOLEAN

\* A recovery code, named by its batch and its place there.
Code == Batches \X (1..BatchSize)

TOTPSecret == [secret : Secrets, confirmed : BOOLEAN]

ASSUME NoneAssumption ==
  None \notin Secrets \cup Batches \cup TOTPSecret

VARIABLES
  backend,   \* which stores the engine was configured with
  totp,      \* the account's totp_secrets row
  passkeys,  \* its webauthn_credentials
  codes,     \* its recovery_codes rows
  used,      \* those with used_at set
  pending,   \* is a pending-login token outstanding?
  req,       \* req[r]: where request r is, and what it holds
  captured,  \* history: secrets a valid code was presented for
  raced,     \* history: secrets enrolled while a confirmation was under way
  redeemed,  \* history: redeemed[c]: logins that code c completed
  bare,      \* history: bare[r]: the factors that the account was without at
             \* some moment of request r
  beside     \* history: pairs of batches whose ReplaceAll ran at the same time

vars == <<backend, totp, passkeys, codes, used, pending, req, captured, raced,
          redeemed, bare, beside>>

Factors == {"totp", "webauthn"}

PCs == {"idle", "enroll", "confirm", "generate", "delete", "replace", "gate",
        "finish"}

Methods == {"none", "totp", "webauthn", "recovery_code"}

Request == [pc : PCs, secret : Secrets \cup {None}, batch : Batches \cup {None},
            old : SUBSET Code, seen : BOOLEAN, err : BOOLEAN, mfa : Methods]

Idle == [pc |-> "idle", secret |-> None, batch |-> None, old |-> {},
         seen |-> FALSE, err |-> FALSE, mfa |-> "none"]

TypeOK ==
  /\ backend \in Backends
  /\ totp \in TOTPSecret \cup {None}
  /\ passkeys \subseteq Passkeys
  /\ codes \subseteq Code
  /\ used \subseteq codes
  /\ pending \in BOOLEAN
  /\ req \in [Requests -> Request]
  /\ captured \subseteq Secrets
  /\ raced \subseteq Secrets
  /\ redeemed \in [Code -> Nat]
  /\ bare \in [Requests -> SUBSET Factors]
  /\ beside \subseteq SUBSET Batches

Init ==
  /\ backend \in Backends
  /\ totp = None
  /\ passkeys = {}
  /\ codes = {}
  /\ used = {}
  /\ pending = FALSE
  /\ req = [r \in Requests |-> Idle]
  /\ captured = {}
  /\ raced = {}
  /\ redeemed = [c \in Code |-> 0]
  /\ bare = [r \in Requests |-> {}]
  /\ beside = {}

At(r, pc) == req[r].pc = pc
Return(r) == req' = [req EXCEPT ![r] = Idle]

Confirmed == totp # None /\ totp.confirmed

\* The factors that the account does not have.
Missing == (IF Confirmed THEN {} ELSE {"totp"})
             \cup (IF passkeys # {} THEN {} ELSE {"webauthn"})

\* What a handler takes the answer of totpStore.GetByUserID, or of
\* webauthnStore.ListByUser, for: an error reads as "not enrolled".
OrMissed(answer) == IF StoreFails THEN {answer, FALSE} ELSE {answer}

-----------------------------------------------------------------------------
(* TOTP enrollment *)

FreshSecrets ==
  Secrets \ (captured \cup raced \cup {req[r].secret : r \in Requests}
                      \cup IF totp = None THEN {} ELSE {totp.secret})

\* EnrollTOTP up to its write; a confirmed secret is ErrTOTPAlreadyEnabled.
EnrollTOTP(r) ==
  /\ At(r, "idle")
  /\ FALSE \in OrMissed(Confirmed)
  /\ \E s \in FreshSecrets :
       req' = [req EXCEPT ![r] = [Idle EXCEPT !.pc = "enroll", !.secret = s]]
  /\ UNCHANGED <<totp, passkeys, codes, used, pending, captured, raced, redeemed>>

\* INSERT ... ON CONFLICT (user_id) DO UPDATE: the new secret, unconfirmed.
Upsert(r) ==
  /\ At(r, "enroll")
  /\ totp' = [secret |-> req[r].secret, confirmed |-> FALSE]
  /\ raced' = raced \cup {s \in {req[r].secret} :
                              \E q \in Requests : At(q, "confirm")}
  /\ Return(r)
  /\ UNCHANGED <<passkeys, codes, used, pending, captured, redeemed>>

\* Mutant: the code is not validated.
ConfirmTOTPUnchecked(r) ==
  /\ At(r, "idle")
  /\ totp # None
  /\ ~totp.confirmed
  /\ req' = [req EXCEPT ![r] = [Idle EXCEPT !.pc = "confirm"]]
  /\ UNCHANGED <<totp, passkeys, codes, used, pending, captured, raced, redeemed>>

\* ConfirmTOTP up to its write: the code is valid for the secret just read.
\* A wrong code, a confirmed secret or none at all changes nothing.
ConfirmTOTP(r) ==
  /\ At(r, "idle")
  /\ totp # None
  /\ ~totp.confirmed
  /\ captured' = captured \cup {totp.secret}
  /\ req' = [req EXCEPT ![r] = [Idle EXCEPT !.pc = "confirm"]]
  /\ UNCHANGED <<totp, passkeys, codes, used, pending, raced, redeemed>>

\* UPDATE ... WHERE user_id: whatever secret the row has by now.
Confirm(r) ==
  /\ At(r, "confirm")
  /\ totp' = IF totp = None THEN None ELSE [totp EXCEPT !.confirmed = TRUE]
  /\ Return(r)
  /\ UNCHANGED <<passkeys, codes, used, pending, captured, raced, redeemed>>

DisableTOTP(r) ==
  /\ At(r, "idle")
  /\ totp # None
  /\ totp' = None
  /\ UNCHANGED <<passkeys, codes, used, pending, req, captured, raced, redeemed>>

-----------------------------------------------------------------------------
(* Passkeys *)

FinishRegisterPasskey(r, k) ==
  /\ At(r, "idle")
  /\ k \notin passkeys
  /\ passkeys' = passkeys \cup {k}
  /\ UNCHANGED <<totp, codes, used, pending, req, captured, raced, redeemed>>

DeletePasskey(r, k) ==
  /\ At(r, "idle")
  /\ k \in passkeys
  /\ passkeys' = passkeys \ {k}
  /\ UNCHANGED <<totp, codes, used, pending, req, captured, raced, redeemed>>

-----------------------------------------------------------------------------
(* Recovery codes *)

CodesOf(b) == {b} \X (1..BatchSize)

FreshBatches ==
  {b \in Batches : /\ CodesOf(b) \cap codes = {}
                   /\ \A c \in CodesOf(b) : redeemed[c] = 0
                   /\ \A r \in Requests : req[r].batch # b
                   /\ b \notin UNION beside}

\* GenerateRecoveryCodes asks for the TOTP secret, and for passkeys if that
\* is no factor; with neither it is ErrNoSecondFactorEnrolled.
GenerateRecoveryCodes(r) ==
  /\ At(r, "idle")
  /\ \E b \in FreshBatches, totpSeen \in OrMissed(Confirmed) :
       req' = [req EXCEPT ![r] =
                 [Idle EXCEPT !.pc = IF totpSeen THEN "delete" ELSE "generate",
                              !.batch = b]]
  /\ UNCHANGED <<totp, passkeys, codes, used, pending, captured, raced, redeemed>>

GeneratePasskeys(r) ==
  /\ At(r, "generate")
  /\ \E keysSeen \in OrMissed(passkeys # {}) :
       req' = [req EXCEPT ![r] = IF keysSeen THEN [@ EXCEPT !.pc = "delete"]
                                 ELSE Idle]
  /\ UNCHANGED <<totp, passkeys, codes, used, pending, captured, raced, redeemed>>

\* The DELETE of ReplaceAll.  In Postgres it finds the rows that are committed
\* when it starts, and locks them; the batches that other transactions are
\* about to commit it does not see.
ReplaceDelete(r) ==
  /\ At(r, "delete")
  /\ req' = [req EXCEPT ![r].pc = "replace", ![r].old = codes]
  /\ UNCHANGED <<totp, passkeys, codes, used, pending, captured, raced, redeemed>>

\* Mutant: the new batch is added to the old one.
ReplacedNothing(r) == {}

\* The rows ReplaceAll's transaction removes.  SQLite has one writer at a time
\* and the memory store a mutex, so there it is every row.
Replaced(r) == IF backend = "postgres" THEN req[r].old ELSE codes

\* The INSERTs and the COMMIT of ReplaceAll.
ReplaceCommit(r) ==
  /\ At(r, "replace")
  /\ codes' = (codes \ Replaced(r)) \cup CodesOf(req[r].batch)
  /\ used' = used \ Replaced(r)
  /\ Return(r)
  /\ UNCHANGED <<totp, passkeys, pending, captured, raced, redeemed>>

\* Mutant: the UPDATE does not ask for used_at IS NULL.
ConsumableAgain(c) == c \in codes

\* Does Consume's UPDATE match a row?
Consumable(c) == c \in codes /\ c \notin used

\* Consume waits for a ReplaceAll that has the row locked.
RowLocked(c) ==
  /\ backend = "postgres"
  /\ \E r \in Requests : At(r, "replace") /\ c \in req[r].old

\* CompleteLoginWithRecoveryCode up to finishLogin.  A wrong or used code, or
\* a pending token that has expired, changes nothing.
CompleteLoginWithRecoveryCode(r, c) ==
  /\ At(r, "idle")
  /\ pending
  /\ ~RowLocked(c)
  /\ Consumable(c)
  /\ used' = used \cup {c}
  /\ redeemed' = [redeemed EXCEPT ![c] = @ + 1]
  /\ req' = [req EXCEPT ![r] = [Idle EXCEPT !.pc = "finish",
                                            !.mfa = "recovery_code"]]
  /\ UNCHANGED <<totp, passkeys, codes, pending, captured, raced>>

-----------------------------------------------------------------------------
(* The gate, and the other ways past it *)

\* Mutant: the gate does not ask the TOTP store.
GateSkipsTOTP(r) ==
  /\ At(r, "idle")
  /\ req' = [req EXCEPT ![r] = [Idle EXCEPT !.pc = "gate"]]
  /\ UNCHANGED <<totp, passkeys, codes, used, pending, captured, raced, redeemed>>

\* completePrimaryAuth, with the primary factor verified: the TOTP secret.
GateTOTP(r) ==
  /\ At(r, "idle")
  /\ \E totpSeen \in OrMissed(Confirmed) :
       req' = [req EXCEPT ![r] = [Idle EXCEPT !.pc = "gate",
                                              !.seen = totpSeen,
                                              !.err = totpSeen # Confirmed]]
  /\ UNCHANGED <<totp, passkeys, codes, used, pending, captured, raced, redeemed>>

\* The passkeys, and the verdict: a factor that was seen pauses the login with
\* ErrSecondFactorRequired and a pending token.  The count of unused recovery
\* codes only decides what Methods lists.
GatePasskeys(r) ==
  /\ At(r, "gate")
  /\ \E keysSeen \in OrMissed(passkeys # {}) :
       \/ /\ req[r].seen \/ keysSeen
          /\ pending' = TRUE
          /\ Return(r)
       \/ /\ ~(req[r].seen \/ keysSeen)
          /\ req' = [req EXCEPT ![r].pc = "finish",
                                ![r].err = @ \/ keysSeen # (passkeys # {})]
          /\ UNCHANGED pending
  /\ UNCHANGED <<totp, passkeys, codes, used, captured, raced, redeemed>>

\* The code is valid for the secret, and the secret is confirmed.
CompleteLoginWithTOTP(r) ==
  /\ At(r, "idle")
  /\ pending
  /\ Confirmed
  /\ captured' = captured \cup {totp.secret}
  /\ req' = [req EXCEPT ![r] = [Idle EXCEPT !.pc = "finish", !.mfa = "totp"]]
  /\ UNCHANGED <<totp, passkeys, codes, used, pending, raced, redeemed>>

\* The assertion verifies against a registered passkey.  The signature counter
\* that Update stores is not modelled, and its failure is only logged.
CompleteLoginWithWebAuthn(r) ==
  /\ At(r, "idle")
  /\ pending
  /\ passkeys # {}
  /\ req' = [req EXCEPT ![r] = [Idle EXCEPT !.pc = "finish",
                                            !.mfa = "webauthn"]]
  /\ UNCHANGED <<totp, passkeys, codes, used, pending, captured, raced, redeemed>>

\* finishLogin; the session it creates is the module Sessions' business.
FinishLogin(r) ==
  /\ At(r, "finish")
  /\ Return(r)
  /\ UNCHANGED <<totp, passkeys, codes, used, pending, captured, raced, redeemed>>

\* The last outstanding pending token is older than mfaPendingTTL.
PendingExpires ==
  /\ pending
  /\ pending' = FALSE
  /\ UNCHANGED <<totp, passkeys, codes, used, req, captured, raced, redeemed>>

\* A store call fails and the handler returns its error; an open transaction
\* is rolled back, a code that was consumed stays consumed.
StoreError(r) ==
  /\ StoreFails
  /\ ~At(r, "idle")
  /\ Return(r)
  /\ UNCHANGED <<totp, passkeys, codes, used, pending, captured, raced, redeemed>>

-----------------------------------------------------------------------------

Arrive(r) ==
  \/ EnrollTOTP(r)
  \/ ConfirmTOTP(r)
  \/ DisableTOTP(r)
  \/ \E k \in Passkeys : FinishRegisterPasskey(r, k) \/ DeletePasskey(r, k)
  \/ GenerateRecoveryCodes(r)
  \/ GateTOTP(r)
  \/ CompleteLoginWithTOTP(r)
  \/ CompleteLoginWithWebAuthn(r)
  \/ \E c \in Code : CompleteLoginWithRecoveryCode(r, c)

Continue(r) ==
  \/ Upsert(r)
  \/ Confirm(r)
  \/ GeneratePasskeys(r)
  \/ ReplaceDelete(r)
  \/ ReplaceCommit(r)
  \/ GatePasskeys(r)
  \/ FinishLogin(r)

\* The batches that a ReplaceAll is about to insert, its DELETE done.
Generating == {req[r].batch : r \in {q \in Requests : At(q, "replace")}}

\* What every running request has seen the account without, and which
\* generations have met.
Observe ==
  /\ bare' = [r \in Requests |-> IF req'[r].pc = "idle" THEN {}
                                 ELSE bare[r] \cup Missing \cup Missing']
  /\ beside' = beside \cup ({{b, d} : b, d \in Generating} \ {{b} : b \in Generating})

Next ==
  /\ \/ \E r \in Requests : Arrive(r) \/ Continue(r) \/ StoreError(r)
     \/ PendingExpires
  /\ Observe
  /\ UNCHANGED backend

Spec == Init /\ [][Next]_vars

-----------------------------------------------------------------------------
(* Properties *)

\* "Each code works exactly once" (CompleteLoginWithRecoveryCode): however its
\* uses and the generation of a new batch interleave, no code completes two
\* logins.
CodeSingleUse == \A c \in Code : redeemed[c] <= 1

\* "every previous code, used or not, stops working the moment a new batch is
\* generated" (GenerateRecoveryCodes): it does, except that on Postgres two
\* batches work side by side if the transactions of their ReplaceAll ran at the
\* same time, neither seeing the other's rows; a batch that was stored when a
\* generation began is gone when it ends, with however many others in between.
WorkingBatchesOverlapped ==
  \A c, d \in codes \ used :
    c[1] = d[1] \/ (backend = "postgres" /\ {c[1], d[1]} \in beside)

OneTime == INSTANCE OneTimeCodes WITH
  Batches <- {CodesOf(b) : b \in Batches},
  single  <- backend # "postgres",
  live    <- codes \ used,
  uses    <- redeemed

\* Whatever uses and generations interleave, the codes of an account come and
\* go in batches, and leave one by one as they are used, for good; where the
\* store replaces every code there is one batch (Consume, ReplaceAll).
CodesAreOneTime == OneTime!Spec

\* A login that goes on to its session without a second factor met, for each
\* factor, a moment when the account was without it, or an error of a store
\* (completePrimaryAuth).
GateNotSkipped ==
  \A r \in Requests :
    At(r, "finish") /\ req[r].mfa = "none" => req[r].err \/ bare[r] = Factors

\* A secret gates logins only if a valid code was presented for it, unless it
\* was enrolled in the middle of the confirmation of another (ConfirmTOTP).
ConfirmedWasCaptured == Confirmed => totp.secret \in captured \cup raced

=============================================================================
