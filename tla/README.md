# CrydenSync: a TLA+ model of the authentication engine

CrydenSync is an authentication library for Go: a host program configures an
`Engine` with a set of stores (Postgres, SQLite or in memory) and calls it for
signup, login, refresh, logout, second factors, OAuth, email links, API keys and
reports. The engine keeps no state of its own. Every request runs in its own
goroutine, possibly in one of several processes, and all they share is the
database, and Redis for the rate limits. What is hard about this code is
therefore less in any one function, which the repository's tests cover well, than
in what happens *between* two store calls of one request while another request
makes its own. Most modules are about that. A second group is about code that
has no state but many inputs: configurations, hash formats, claims, queries.

## The system's parts

| Part | Source | State | Operations | Model |
|---|---|---|---|---|
| Sessions, refresh tokens | `token/refresh.go`, `session/`, `auth/logout.go`, `cryden.go`, `store/*/session_store.go` | `sessions` table | insert at login, rotate, revoke one, a family, all of a user | `Sessions`, `TokenFamilies`, `SessionsProofs` |
| Password login and lockout, password change, deletion | `auth/login.go`, `auth/rehash.go`, `auth/password.go`, `auth/account.go`, `store/*/user_store.go` | the `users` row | count failures, lock, reset, rehash, change hash, delete | `Accounts`, `AccountsProofs` |
| Magic links, email change | `auth/magiclink.go`, `auth/email.go`, `store/*/verification_store.go` | `verification_tokens`, the email column | request, send, redeem, mark used | `EmailLinks`, `DirectoryProofs` |
| Signup, OAuth identities | `auth/signup.go`, `auth/oauth.go`, `store/*/oauth_store.go` | `users`, `oauth_identities` | create, link | `Identities`; `Directory` composes it with `EmailLinks`, `AddressBook`, `DirectoryProofs` |
| Second factors | `auth/mfa.go`, `auth/webauthn.go`, `auth/recoverycodes.go`, `token/mfa_pending.go`, the gate in `auth/login.go` | `totp_secrets`, `webauthn_credentials`, `recovery_codes` | enroll, confirm, disable, register, delete, generate, consume | `SecondFactor`, `OneTimeCodes`, `SecondFactorProofs` |
| Rate limits | `security/ratelimiter.go`, `security/redisratelimiter.go` | a counter per key | allow | `RateLimiter`, `SupportingProofs` |
| API keys | `auth/apikeys.go`, `store/*/api_key_store.go` | `api_keys` | create, touch, revoke; deleted with their owner | `APIKeys`, `APIKeysProofs` |
| Anomaly and stuffing detection | `auth/anomaly.go`, `auth/stuffing.go`, `security/anomaly.go`, `security/stuffing.go`, `store/*/anomaly_store.go` | `login_attempts`, audit events | gather, evaluate, record attempt, record event | `Signals` (the decisions), `Detection` (the handlers), `DetectionProofs` |
| Audit trail, webhooks, admin reports | `webhooks.go`, `store/*/audit_store.go`, `admin/` | `audit_events` | record, then send; count and search | `AuditTrail`, `AuditTrailProofs` |
| SQLite migrations, start-up checks | `store/sqlite/migrate.go` | the schema, `cryden_schema_migrations` | apply a file, check pragmas | `Startup`, `SchemaVersions`, `SupportingProofs` |
| Password hashing and policy | `security/hasher.go`, `argon2idhasher.go`, `multihasher.go`, `passwordpolicy.go` | the stored hash | hash, compare, rewrite | `Credentials`, `SupportingProofs` |
| Access and pending tokens | `token/jwt.go`, `token/claims.go`, `token/mfa_pending.go` | none | issue, verify | `AccessTokens`, `SupportingProofs` |
| Engine, configuration, facade | `engine.go`, `config.go`, `cryden.go` | the constructed parts | validate, default, construct, call | `EngineWiring`, `SupportingProofs` |
| AI assistant, widget | `ai/`, `widget/ask.go`, `store/*/safe_query_store.go` | none | scope, validate, run | `AskQueries`, `SupportingProofs` |
| Device list | `session/named.go`, `security/useragent.go`, `security/geolocation.go` | none | parse, locate, label | `DeviceList`, `SupportingProofs` |
| Logging | `logger/` | none | filter, redact, fan out | `LogPipeline`, `SupportingProofs` |
| Encryption, TOTP codes, ids | `security/encryption.go`, `security/totp.go`, `token/generator.go` | none | none | enter the modules as outcomes |

How they meet: every primary factor (password, link, OAuth) ends in
`completePrimaryAuth`, which judges the login (`Detection`), asks for second factors
(`SecondFactor`) and then in `finishLogin`, which inserts the session (`Sessions`, and
as one step `Accounts`). `ChangePassword` and `DeleteAccount` call the session
store's `RevokeAllForUser`, and a refresh may be under way while they do (`Accounts` has
its own, smaller, copy of both). Signup, OAuth and email change write the same addresses
(`Directory`). Nearly every handler records audit events, which the admin reports and
the stuffing detector read back. The other modules overlap only at single calls, so each
keeps just its own tables.

What is hard, and listed line by line under `hazards` in `PROJECT.json`:

* *check, then act*: a handler reads a row, decides, and writes in a later call;
* *one statement over many rows* on Postgres at READ COMMITTED, which does not
  see rows committed after it started;
* *best-effort steps*: errors of some calls are logged and passed over, of others
  returned, after earlier steps were already committed;
* *reports made of several reads*, while the tables change;
* *three backends that differ*: UNIQUE constraints, `WHERE revoked_at IS NULL`,
  foreign keys, cascades and how a timestamp is compared;
* *time*: lockouts, link lifetimes, fixed windows, counters with no expiry, fractions of
  a second that a format cuts off;
* *crashes and restarts* in the middle of a migration or of an audited call;
* *combinations*: configurations, hash parameters, decorators and model-made queries that
  nobody enumerates in a test.

## How the modules correspond to the code

The modules about requests have the same shape. `req[r]` (in `AuditTrail`, `writer[r]`)
is request `r`'s goroutine: its `pc` names the store call it makes next, its other
fields hold what it has read. An action is one store call with the code up to the next
one: the lookups a handler starts with are the actions of `Arrive`, the others those of
`Continue`. A call that fails is `StoreError`, which does what the handler does with
that error. A handler that returns goes back to `Idle`. Tables are functions from
ids to records or `None`; tokens, hashes, addresses and ids are model values.
Variables commented *history* record what callers were told and have no
counterpart in the code. Definitions marked *Mutant* are plausible bugs; no
specification uses them, they exist to show that the properties would notice.

**Sessions.** A refresh token is identified with its row's id (256 random bits and
a unique column). `RotateLookup`/`RotateToken`/`RotateIssue` are `token.Rotate`
and the facade's `RefreshToken`; `RevokeFamily` and `RevokeAllForUser` are one step on
SQLite and in memory, and a scan and a commit on Postgres (`Pg...Scan`,
`Pg...Commit`). `LoginIssue` precedes `LoginCreate` because `finishLogin` issues
the access token first. The claims provider may fail in both.

**TokenFamilies** is the abstract promise: a login is a family with at most one
current token, a rotation replaces it by a fresh one, and an ended family never
comes back. `Sessions` maps `current` to the live row of each family and `used`
to the stored rows.

**Accounts** has one row, the user's live sessions, and any number of logins, refreshes,
changes and deletions of it. `seen` is `locked_until` as the login read it, `until` the
lock it is going to set, `since` the number of password changes when it read the row, `read`
the sessions rows that a refresh looked up or a bulk revocation's snapshot has. As in
`Sessions`, `RevokeAllForUser` is one step on SQLite and in memory, and a scan and a commit
on Postgres (`PgRevokeAllScan`, `PgRevokeAllCommit`). A session carries two histories along its
refreshes: `opened`, the number of changes stored when its login inserted it, and `missed`,
that number when a refresh last inserted one of its rows between the scan and the commit of a
password change. What else ends sessions, logouts and reuse detection, is in `Sessions` only:
without it a row of `Accounts` lives longer, never shorter. `FailingCalls` chooses the calls
that may return an error.

**EmailLinks** has the two handlers that send a link and the two that redeem one.
The login marks the token used before it goes on, the email change after it was
made; both only log an error of `MarkUsed`, also the one that says that the token
was used already; so two requests that read one link as unused both log in
(`MagicLinkSingleUse`, run `link_twice`). `mailed` are links that reached their reader. Delivery may fail.
**Identities** is signup and OAuth: addresses, whether the account has a password, and
the `oauth_identities` rows of each external identity; `lost` are the accounts that a
failed or refused `Link` left without one. **Directory** puts both on one `users`
table: a goroutine serves one request of either kind, and the address that an email
change checked may be taken by a signup before it is confirmed.

**AddressBook** is what all of them together promise the rest of the system: an id is opened
once, at an address that nobody has, and may move to another such; an identity goes to an
account that exists, and to no second one. `Directory` maps `address` to the email column and
`owner` to the one account in an identity's rows. Between the check of an address and its
insert or update lie up to an hour and any number of other requests.

**SecondFactor** is one account's factors. A pending-login token is a signed value
and no row, so `pending` is a Boolean. `bare[r]` records which factors the
account was without at some moment of request `r`, which is how
`GateNotSkipped` can be stated for a gate that makes two reads. `beside` has the pairs of
batches whose `ReplaceAll` transactions ran at the same time; on Postgres neither of the two
deletes the other's codes.

**OneTimeCodes** is the promise of the recovery codes: a batch replaces codes that work, and
a code that works is redeemed. `SecondFactor` maps `live` to the unused codes of the table,
`uses` to its history of completed logins, and `single` to a backend whose generations do
not overlap. Counting a completion in the step that consumes the code is what makes a second
use of a code that was read as unused a step that the promise does not have.

**RateLimiter** is one key. Time is relative to now, so the clock is unbounded and the
state finite. Redis starts from any leftover counter without an expiry.

**APIKeys** has the keys of two accounts. A key, its hash and its id are one value.
`keyStore` is chosen in `KeysInit`: with foreign keys, SQLite without them, or memory.
`lastGrant`, `slowest` and `untouched` are histories that let
`LastUsedTracksUse` bound how far `last_used_at` may be behind, given that the read
and the write of it are two calls.

**Signals** has the two pure decisions: `Evaluate`, over the evidence that was gathered and
the thresholds that are set, and `EvaluateStuffing`. **Detection** keeps `login_attempts`
as a sequence and, of the audit trail, the stuffing events. A failed login records itself
and then counts the targets of its address; a successful one gathers its evidence read
by read (addresses and agents of earlier successes, failures of the account and of the
address, active sessions, token reuse), is judged, recorded, and then counts too. The
last two reads are of other components' tables and answer anything. `target`, `due`
and `silent` are histories: what an attempt named before its account was deleted, what an
observer of the full history would report when the login arrived, and the logins that did
not get it. Deleting an account sets `user_id` to NULL in its attempts, and makes inserts of
its attempts and events fail. A failing read is "no evidence" for the signals that need
it, a failing cooldown lookup is "not flagged", as in the code.

**AuditTrail** is the audit table with the recorder in front of it. The handlers whose
effects a report is compared with are there in full (a wrong password with its counter
and lock, and `DeleteAccount`, which records before it deletes); the other thirty record
through `RecordOther`. `Stamp` and `Insert` are two steps on the SQL stores, because
`created_at` is fixed before the row is visible. On SQLite times are compared as the text
that `formatTime` writes. Reports are sequences of reads: `DigestSince`, `DigestCount`, one
`DigestSearch` per attention type, `DigestDone`; `DiagnoseUser` and `DiagnoseHistory`;
`BuildTuningReport` with its one read. `Text` has the section of every event type.

**Startup** is `Migrate` and `CheckPragmas`. A file is a number with two statements. The one
write transaction of SQLite is `tx`: its effects appear at `Commit` and go with its
process at `Crash`. A process that fails or dies is `Down` and started again.

**SchemaVersions** is what a process that starts may rely on: the schema is that of some
version as a whole, versions follow one another, and nobody serves before the last one.
`Startup` maps `version` to the file up to which markers are recorded and `schema` to the
tables that exist, so that a marker without its tables, or the reverse, is no state of it.

**Credentials** follows one stored hash through changes of the configured hasher, logins
and password changes. A hash is a record of what its text carries, and a derived key the
tuple of everything that went into it, so that a verification with other parameters fails as
it would. **AccessTokens** has the issuer, the pending issuer that signs with the same secret,
and a provider's claims; the clock has two ticks to a second and `NumericDate` cuts
them. What each `Verify` accepts is stated by the kind of the token (`TokenSpeaksForItsUser`);
that `VerifyWithClaims` accepts pending tokens too is `PendingIsNoAccessToken`, which the run
`pending_token` refutes. **EngineWiring** is `validate`, `applyDefaults` and `New` over sets of configured
fields, and for each facade function its guard and the parts that the code behind it
dereferences. **AskQueries** takes any `QueryIntent`, as a language model may answer with
anything, and runs `scopeToOwner`, `validateIntent` and `RunSafeQuery` of both SQL stores.
**DeviceList** is `ParseUserAgent` with its tables in their order and `ListNamed`'s loop with
its cache. **LogPipeline** is a write through a composition of decorators. The composition
is a function from places to loggers, and the constructors build it as the code does (a nil
logger collapses, a fan-out of one is that one). Loggers keep no state, so one that is used
in two places is two. A call, a return and a panic of a `Log` method are a step each:
`given[p]` is the record that the logger at `p` was called with, `progress[p]` how far it
is; a panic unwinds filters and redactors and stops at `writeOne`.


Components that share nothing are checked together where that saves a run and nothing else:
**MCComponents** (the stateless parts, `RateLimiter` and `Startup`) and **MCDirectoryAndKeys**
(`Directory` and `APIKeys`, which has the accounts that exist as a set of its own). Their `focus`, chosen in the initial state, names the component that a
behaviour explores; the others rest in an initial state of theirs, so the states of the
components add up and are not multiplied.

## What the runs check

| Run | Checks | Shows |
|---|---|---|
| `sessions_sqlite` | `OneLivePerFamily`, `EndedFamiliesStayDead`, `LoginLeavesNoOrphan`, `ReplayEndsFamily` | With the SQLite store, concurrent logins, refreshes, logouts and reuse detections leave every login at most one usable token, whatever a caller was told is ended stays ended, and a revoked token presented again eventually ends its family. |
| `sessions_postgres` | `LogoutEndsFamily`, `FamiliesSpec` | With Postgres, where a bulk revocation works on its statement's snapshot, and with failing store calls, a single logout still ends its login, and the whole implements TokenFamilies. |
| `accounts_postgres` | `ThresholdLocks`, `BurstBounded`, `NoSessionOutlivesChange`, `DeletedAccountHasNoSessions`, `LockYieldsOnlyToOlder`, `PasswordYieldsOnlyToOlder` | Three concurrent logins, refreshes, password changes and deletions of one account on Postgres, with every store call but LockAccount and ChangePassword's revocation free to fail: the lockout engages, a burst past the threshold is bounded by the requests in flight, a lock and a changed password give way only to requests older than they are, a login from before a password change is still alive after it only if a refresh replaced its row in the middle of the change's UPDATE, and a deletion leaves no session behind. |
| `directory_keys` | `EmailsUnique`, `RedemptionsBounded`, `PasswordlessHasIdentity`, `KeepsAddressBook`, `LastUsedTracksUse`, `StoppedIsRefused` | Two components, each explored by itself, with failing store calls. Signups, OAuth logins and links, magic links and email changes of two requests at a time on one users table: addresses stay unique although every caller checks them long before it takes them, a link is redeemed no more often than requests held it before its first MarkUsed and MarkUsed calls failed, an account without a password can be logged into, and the whole implements AddressBook, where an address or an external identity that is taken is nobody else's until it is given up. API keys on every store, with generation, use and revocation at the same time and deletion of their owners: a stopped key is never accepted again, a key that was being generated while its owner was deleted included where the store has foreign keys, and last_used_at stays within its granularity or the delay of the slowest write. |
| `factor` | `CodesAreOneTime`, `WorkingBatchesOverlapped`, `GateNotSkipped`, `ConfirmedWasCaptured` | Enrollment, passkeys, recovery codes and gated logins interleaved on Postgres and on a store that serialises writers, with store errors: the recovery codes implement OneTimeCodes, where a code that was redeemed or replaced is of no use again, codes of two batches work at once only on Postgres and only where the two were being stored at the same time, and a login that was not asked for a factor met a moment without each, or an error. |
| `detection` | `SprayIsFlagged`, `CooldownHolds`, `DueIsSignalled` | Concurrent failed and successful logins from two addresses, with failing store calls and deleted accounts: a spray is flagged however its requests interleave, a cooldown has no more events than requests run at once, and a login is judged by everything that preceded it. |
| `components` | `SwitchLocksNobodyOut`, `RehashConverges`, `TokenSpeaksForItsUser`, `CallsFindTheirParts`, `AnswerIsTheCallersOwn`, `ListingNamesEverySession`, `EverySinkGetsItsRecord`, `BurstBounded`, `DeniedIsLetIn`, `UpgradesByVersion`, `StartedServe` | Eight components that share nothing, each explored by itself. A change of the configured hasher keeps every password working and its upgrades settle; a token that is accepted by the Verify of its kind names the user it was issued for; a configuration that starts has the parts its calls use; an assistant's query answers with the caller's own rows whatever filters it was given; a listing has every session whatever the geolocator does; a sink that panics costs the others nothing; both limiters allow at most two windows' worth of calls in any stretch as long as the window, from any leftover Redis counter and with answers lost on the way, and let a denied caller that keeps calling in again; and several processes that migrate one SQLite file and may crash between any two statements implement SchemaVersions, where a schema goes from one version to the next as a whole and is served at the last one only, and each that keeps being restarted serves in the end. |
| `audit` | `NoticeFollowsRow`, `DigestAddsUp`, `DigestsMissOnlyInFlight`, `LockIsExplained` | Concurrent audited calls, webhook deliveries and admin reports over the audit table, on the memory store and on SQLite with its timestamps as text: a subscriber hears only of rows that exist, a digest's figures agree with each other, consecutive digests miss no event but those still being written, and a locked account has the event that tells support why. |

Four runs end in a violation. Each checks one property, which states what a comment of the
repository says; `findings` in `PROJECT.json` quotes the comments.

* `sessions_pg_reuse`, `ReuseEndsFamily`: a refresh that commits between `RevokeFamily`'s
  snapshot and its commit on Postgres leaves a live session in a family that is reported as
  revoked.
* `accounts_pg_change`, `ChangeEndsSessions`: in the same way a refresh that commits during
  `ChangePassword`'s `RevokeAllForUser` carries a session from before the change past it
  (`auth/password.go:23-26` "ALL sessions are revoked"). On SQLite the property is a theorem.
* `link_twice`, `MagicLinkSingleUse`: two clicks on one magic link both read it as unused; the
  one whose `MarkUsed` comes second gets an error, which is only logged, and a session
  (`store/sqlite/verification_store.go:68-71` "single-use even under a race").
* `pending_token`, `PendingIsNoAccessToken`: `VerifyWithClaims` accepts the token of a login that
  still owes its second factor (`token/mfa_pending.go:22-25` "specifically to prevent that
  confusion").

### What the properties step around

Places where the code does not do what one might expect from a comment, met while
modelling. The passing properties are stated exactly so that they hold around them, and a
weakened version of the code would still break them:

* Postgres: `RevokeAllForUser` misses the row of a refresh that commits while its
  UPDATE runs (`auth/logout.go:49` "revokes every session"), in the same way as
  `sessions_pg_reuse`. `EndedFamiliesStayDead` is therefore a SQLite property.
  `NoSessionOutlivesChange` says exactly which sessions outlive a password change for this
  reason, those whose row a refresh replaced in the middle of a change's UPDATE
  (`accounts_pg_change`).
* Memory store: `RotateToken` does not look at `RevokedAt`, so two concurrent
  refreshes both succeed (`store/memory/session_store.go:102-105`), and `Link` and
  `Create` have no unique check. A refresh that looked its token up before a password change
  gets through after it, so neither `NoSessionOutlivesChange` nor `ChangeEndsSessions` is
  claimed there.
* `Rotate` takes a session that was logged out for one that was rotated, so a
  late refresh after a logout raises `token_reuse_detected`.
* A login whose hash upgrade lands after a concurrent `ChangePassword` puts the old
  password back (`auth/rehash.go:50`): the login reads the row and verifies the old
  password, the change is stored, and then the upgraded hash of the old password is. That only
  a login older than the change can do this is `PasswordYieldsOnlyToOlder`.
* Two concurrent clicks on one magic link both read `UsedAt` as nil and both log in, since
  an error of `MarkUsed` is only logged (`link_twice`). `RedemptionsBounded` says how often
  this can happen at most.
* `ChangePassword` returns nil although `RevokeAllForUser` failed
  (`auth/password.go:23` "On success, ALL sessions are revoked"); hence
  `"revoke_all"` is not among `FailingCalls`. A login that verified the old
  password before the change may still insert its session after it.
* `ResetFailedAttempts` of a login that verified its password before the account was
  locked clears the lock (`auth/login.go:110`); `LockYieldsOnlyToOlder` says that
  only such a request can.
* `LoginWithOAuth` inserts the account before the identity and does not undo it when
  `Link` fails (`auth/oauth.go:104`): the account has no password and no identity, and
  later OAuth logins with its address are conflicts. A magic link still reaches it.
  `PasswordlessHasIdentity` has these accounts as `lost`, and no others.
* Deleting an account turns its failed attempts into attempts on unknown emails, which
  `CountTargetsForIP` counts one by one: many failures against one account become
  many targets.
* `auth/login.go:176-179` says that the burst measured after a success "includes it";
  `CountTargetsForIP` counts failures only.
* A host that sets only `Window` of the anomaly thresholds gets zeros for the others, which
  turns their signals off; `config.go:335-338` says that it "meant to keep the default
  thresholds". `Signals` has the meaning of a zero threshold.
* A slow `TouchLastUsed` may overwrite a newer one; `LastUsedTracksUse` allows for it.
* SQLite without `foreign_keys` in the DSN: a login in flight inserts a session for
  a user that was deleted (`store/sqlite/user_store.go:94-101`).
* A magic link mailed before an email change still logs in after it.
* Postgres: two overlapping `GenerateRecoveryCodes` leave two working batches
  (`auth/recoverycodes.go:48-49` "every previous code, used or not, stops working the moment a
  new batch is generated"). `WorkingBatchesOverlapped` says that only batches which were being
  stored at the same time ever work together, and on Postgres only.
* The gate reads TOTP and passkeys in two calls and takes an error for "not
  enrolled"; `GateNotSkipped` allows exactly these two ways past it.
* `Confirm` confirms whatever secret the row holds by then, and `Upsert`
  overwrites a secret that was confirmed after `EnrollTOTP` looked;
  `ConfirmedWasCaptured` excludes the first of these by its history `raced`.
* A recovery code is consumed before the session is created; if that fails, the code is
  spent.
* `VerifyWithClaims` does not look at `typ`, so it also accepts a pending token
  (`pending_token`); and `typ` is not a reserved claim name, so an access token to which the
  host gave that claim passes for a pending one. `TokenSpeaksForItsUser` is about access tokens in
  `VerifyWithClaims`, and about both in the pending issuer's `Verify`.
* Recovery codes configured without TOTP and passkeys: `New` builds no pending issuer, and
  `CompleteLoginWithRecoveryCode` would use it. `CallsFindTheirParts` names this one
  exception; no login can be waiting for a second factor in such an engine.
* An Argon2id rewrite writes the configured parameters, so it may lower one where another
  rises (`argon2idhasher.go:157-158` "left alone rather than downgraded"); a hash that is at
  least as strong in every one is left alone (`RehashConverges`). A password of more than 72
  bytes under Argon2id cannot be rewritten after a switch to bcrypt, and keeps working.
* A digest's searches come after its count and may list an event that it did not count.
  `DigestAddsUp` excludes the opposite, a counted one that is missing without the note.
* `runGroupBy` has no LIMIT, while `ai/validate.go:14` speaks of every query;
  `AnswerIsTheCallersOwn` claims the limit for listings.

### Bounds

State is finite because ids are: a new row takes an id that was never used, and a
handler that needs one is not enabled when none is left. Clocks and counters have bounds
in the guards (`MaxTime`, `MaxClock`, `MaxFailed`, `MaxChanges`, `MaxRows`, `MaxUnmarked`, `MaxHits`,
`MaxLogins`, `MaxErrors`, `MaxDeletions`, `MaxEvents`, `MaxTokens`, `MaxCrashes`). Constants of the code that
are larger than an instance can reach are scaled down with everything that is compared with
them: thresholds, limits and windows.

| Module | Instance | Why it is enough |
|---|---|---|
| `Sessions` | 2 users, 3 rows, 2 requests | a login, its rotation and a second rotation or login, against one concurrent revocation |
| `Accounts` | 3 requests (2 in `accounts_pg_change`), 2 passwords, threshold 2, lock of 2 ticks, clock to 2, 1 change, 2 sessions rows | two failures that race past the threshold and a login or change beside them, before, during and after the lock; a login and the refresh of its session, or two logins, around a change or a deletion |
| `Directory` | 2 users, 3 emails, 1 external identity, 2 tokens, 2 requests, links that last to the end of their tick, clock to 1, 1 failed `MarkUsed` per token | two requests that collide on an address, an identity or a link, and an address that changes hands meanwhile; a link before and after expiry |
| `SecondFactor` | 2 secrets, 1 passkey, 3 batches of 2 codes, 2 requests | a re-enrollment inside a confirmation, two generations at once and a third after them or before, use during replacement |
| `RateLimiter` | limit 3, window 5, counter to 4 | a burst on each side of a boundary; above the limit the counter's value does not matter |
| `APIKeys` | 2 users, 2 keys, 2 requests, lifetimes 0 and 1, granularity 1, clock to 2 | a touch delayed past the granularity, a revocation or deletion inside it |
| `Detection` | 2 users and the unknown one, 2 addresses, 1 agent and no agent, 2 requests, 3 logins, 1 failing call, 1 deletion, targets 2, cooldown 1, windows 2 and 1, clock to 2 | two requests that cross the threshold together and a third within the cooldown, any one read or write failing; the scan limit is not exceeded here, and the code accepts duplicate events when it is |
| `AuditTrail` | 2 requests, 2 events, clock to 2, highlights 1, history 2, lockouts after 1 failure, 1 lockout and 1 success in place of the tuning report's 3 and 50, on SQLite and in memory; a load is a list of reports and the handlers beside it | one event more than a digest lists, one written while it counts, a lock with its event under way, ticks whose text has a fraction that can be trimmed. Postgres compares times as the memory store does and stamps as SQLite does |
| `Startup` | 3 processes, 2 files of 2 statements, 2 crashes, every choice of pragmas | a crash in either half of a file while another process waits and a third has an old list |
| the six stateless ones of `MCComponents` | 11 hashers, 4 passwords, 5 imported hashes; 6 sets of claims, 3 secrets, 2 tokens (1 of each in `pending_token`); every choice of 11 optional fields and of 3 knobs; all intents of up to 2 of 8 filters on 4 entities; lists of 3 sessions over 8 agents; several hundred compositions of filters, redactors and fan-outs, nested fan-outs among them, over sinks that work and sinks that panic | each branch of the code with an input on both sides of it |

Symmetry is used for ids and requests, which no module orders, and only in runs without
liveness. `CHECK_DEADLOCK FALSE` is set where the system may stop: the account is
deleted, every process serves, ids, events and logins are used up, or a component that
`focus` names has had all its inputs. The request modules' own deadlocks would need a
goroutine that waits for another one, and only `SecondFactor` has such a wait (a row lock): its
run checks deadlock.

### Fairness

`sessions_sqlite` assumes weak fairness of `Continue(r)` for every request: a goroutine
that is running is scheduled and a store that works answers. Nothing is assumed
about `Arrive` (clients need not call), nor about the order of requests.
`StoreFails` is FALSE there, because a call that may fail every time promises
nothing. `components` has the fairness of two of its parts, each under its own `focus`. For the
limiter it assumes that time passes (weak fairness of `Tick`) and that the caller keeps
calling and Redis answers (weak fairness of `Allow`); `DeniedIsLetIn` is about exactly such a
caller. `AllowUnanswered` may happen at any time and is an outcome the property admits. For
the migrations it assumes weak fairness of `Step(p)` for every process: it is scheduled, and
whoever deploys it starts it again after it ended with an error, as the service managers of
such programs do. Losing the race for the write lock is itself a step, so fairness does not
grant a process the lock; it gets through because every failure means that another one got
further, and there are finitely many files. Crashes are bounded. `StartedServe` is
`EveryoneServes` of the behaviours in which the processes start at all.

## What is proved

TLAPS checks every proof in the eight proof modules. Every invariant and every action
property of the passing runs is a theorem, and so are the four refinements, of `TokenFamilies`,
`AddressBook`, `OneTimeCodes` and `SchemaVersions`: the run shows each on its instance, the
theorem for every value of the constants. `SupportingProofs` has one section for each of the
components that the flows rest on; the other proof modules are about one module each. Three
properties that the runs once checked by themselves are implied by a refinement and are kept
as theorems: `LinkNeverRepointed`, `CodeSingleUse` and `MarkersTellTheSchema`.

What the theorems assume is the named `ASSUME`s of the modules (`None` is no id, durations
and bounds have their types, a window or a threshold that the configuration defaults is not
0, tables are finite), which TLC evaluates in every run of the module, and what a theorem's
own hypothesis says: a store other than the memory one where that has no UNIQUE check, a
store call that does not fail where its error is swallowed, `IsFiniteSet(Requests)` where
requests are counted. The bounds in the guards (`MaxTime` and the others) are constants too, so
a theorem holds for all of them and says nothing that a bound makes true.

An invariant is seldom inductive as it stands. What each needs:

* `SessionsProofs`. An id drawn for a new row is nobody else's and not stored
  (`IdsDistinct`), a request at a call holds the ids that call uses (`RequestsOK`), a stored
  row's family is a stored row (`FamiliesStored`), so that a new login's family is new:
  with `TypeOK` these are `Consistent`. From it `SqlOneLivePerFamily`: a rotation revokes
  the family's only live row in the step that inserts the new one. `SqlLogoutEndsFamily`
  and `SqliteEndedFamiliesStayDead`: an ended family has no live row, a rotation needs
  one (`EndedStep`), and what each operation reports as ended has none left at
  that moment (`LogoutReports`, `LogoutAllReports`, `ReuseReports`); on Postgres only the
  logout satisfies the latter. `AlwaysLoginLeavesNoOrphan`: a row is inserted in the
  step that returns its token. `SqlRefinement`: a login is `Begin`, a rotation `Rotate`,
  all revocations are `End`, the rest stutters.
* `AccountsProofs`. A request about to lock carries a positive end (`LocksSet`) and a login
  under way had read an expired lock (`SeenExpired`). `AlwaysThresholdLocks`,
  `AlwaysLockYieldsOnlyToOlder` and `AlwaysDeletedAccountHasNoSessions` follow with facts of
  their own. `AlwaysNoSessionOutlivesChange`, on the SQL stores, is inductive: every row that
  an action leaves was there before, was inserted by a login after the last change, or replaces
  a live one whose histories it takes over (`SessionAfter`); if its predecessor was still to be
  revoked, either the change has not scanned yet and will find the successor, or it has, and
  then `missed` says so. `AlwaysChangeEndsSessions` is the same on SQLite, where nobody is ever
  between scan and commit.
  `AlwaysPasswordYieldsOnlyToOlder` rests on `StaleIsOriginal`: a hash that is due for an upgrade
  is the one that the account started with. `AlwaysBurstBounded` counts: the requests about to
  lock are added to what the counter may have, and from the first lock on, only those who
  were let in before it are still to be counted (`BurstInv`).
* `DirectoryProofs`. What a request holds between its calls (`JoiningHolds`, `LinkingHolds`,
  `TokensHold`). `AlwaysEmailsUnique` and `AlwaysLinkNeverRepointed` need the UNIQUE
  constraint; `AlwaysPasswordlessHasIdentity` holds on every store, and follows the
  account from `Create` to `Link` or to `lost`. `AlwaysRedemptionsBounded` counts the holders of a link
  in two phases (`RedeemInv`): until it is marked used, each redemption is owed to a
  `MarkUsed` that failed or has yet to be called; afterwards nobody new can read it.
  `AlwaysKeepsAddressBook`: an insert is `Open`, an email change `Move`, a `Link` that finds
  nobody `Adopt`, and every other step leaves the book as it is. That an identity has one
  owner at most, and one that exists, is the invariant of `AlwaysLinkNeverRepointed`; that a
  written address is free is the UNIQUE constraint and not the check that the request made.
* `SecondFactorProofs`. A batch in the making was never stored and is nobody else's
  (`CodesKept`); what the gate did not see, the account was without (`GateKept`); the row has
  a captured secret while a confirmation is under way (`ConfirmKept`).
  `AlwaysWorkingBatchesOverlapped`: a generation that is about to commit takes away every code of
  the table but those of batches it ran beside (`BatchKept`), and two that are both about to
  commit have met (`OverlapKept`). `AlwaysCodesAreOneTime`: a
  commit of a generation is `Replace` with a batch that never worked (`CommitReplaces`), a
  completion `Redeem` of a code that still works (`CompletionRedeems`), the rest stutters.
* `APIKeysProofs`. A key in the making is new (`Making`); a stopped key is gone, revoked,
  or about to be refused by the foreign key (`StopKept`); no request holds a time from
  the future (`Held`, `Grants`).
* `AuditTrailProofs`. `AlwaysNoticeFollowsRow` from where an event is on its way through `Record`
  (`Inv`). `AlwaysLockIsExplained`: the event of a lock is traced from the request's hands into
  the trail (`LockInv`). `AlwaysDigestsMissOnlyInFlight` and `AlwaysDigestAddsUp` need that
  rows lie in the past and the memory store's slice is in their order (`Order`), what a
  count can have missed (`CatchInv`), what a digest has when some of its searches are still to
  come (`BuildInv`), and that the text of a SQLite timestamp orders like the time
  (`TextKeepsOrder`), with the fractions that `formatTime` writes.
* `DetectionProofs`. `AlwaysDueIsSignalled`: each due signal is backed by what the request has
  read or is about to read, and counts of failures only grow meanwhile (`DueInv`).
  `AlwaysCooldownHolds` adds the requests that are about to raise an event, having looked before
  there was one, to the events (`CooldownInv`). `AlwaysSprayIsFlagged`: an address at the
  threshold is still to be judged by some request, or each of its failures has an event
  (`SprayInv`); a window that no attempt is added to loses targets and gains none
  (`TargetsShrink`, `WindowStep`).
* `SupportingProofs`.
  * `AlwaysMarkersTellTheSchema`: what the open transaction has so far (`Holder`) and how far
    its process has come through the files (`Cursor`). From it `AlwaysUpgradesByVersion`: markers
    are the files up to some number, the version (`VersionOfMarkers`), and a commit adds the next
    file's tables and its marker together (`VersionStep`).
  * `AlwaysTokenSpeaksForItsUser`: the claims of every token that was issued, by its kind, with
    a `typ` only where the issuer or the host put one (`Issued`), and that `NumericDate` cuts
    less than a second (`NumericDateCuts`).
  * `AlwaysCallsFindTheirParts`: what the parts of an engine have in common (`Fits`); `New` builds
    nothing else.
  * `AlwaysSwitchLocksNobodyOut`, `AlwaysRehashConverges`: the stored hash is one of
    the owner's password, and every hasher that was constructed can run (`CredentialsInv`).
  * `AlwaysAnswerIsTheCallersOwn`: the scoped intent has the owner's filter and no other one on
    the identity column. The operators are applied to a set of filters, as the clauses are
    joined by AND.
  * `AlwaysListingNamesEverySession`: the entry of each session that the loop has passed is the one
    its address has in the cache (`DevicesInv`). It is for lists in which no User-Agent has
    both `crios/` and `chromium/`: the table asks for the first one first and answers
    Chrome, where the property wants the more specific Chromium. No browser sends both.
  * `AlwaysBurstBounded` of `RateLimiter`: the calls since the window began are within what was
    counted, and those before it are at most those of one window (`OpenWindow`); `Allowed` is the
    set of calls, so that they can be counted.
  * `AlwaysEverySinkGetsItsRecord`: for trees of any depth and width. A logger's record is the
    one that was logged but for what its way does to it (`AllFaithful`); calls are nested, so a
    logger that has returned has none under it still running (`Nested`); every panic can be
    blamed on a broken sink with no fan-out in between (`Blamed`); and a sink that returned has
    its record, once (`Fulfilled`). That a write which is over has passed every place it was
    to pass follows from the first place on its way where that would fail (`PassedIsEnded`), and
    in the same way a panic gets up to the caller (`PanicReachesCaller`). The theorem is about every set of trees;
    `CompositionsAreTrees` says that putting a logger in front of trees gives a tree. What
    `NewMultiLogger` leaves of a list with nil loggers is `SelectSeq`, which is defined by
    recursion over the list: that part TLC evaluates on the run's compositions.

Only model-checked: `ReplayEndsFamily`, `DeniedIsLetIn` and `EveryoneServes` (in its run,
`StartedServe`), because liveness is outside this prover's reach; and the four properties that
runs refute, of which `ChangeEndsSessions` is a theorem on SQLite.

## Not modelled

* *Cryptography, encodings and formats*: AES, HMAC, TOTP codes, base64, UUIDs, cursors,
  SQL text. A signature is the secret that made it, a hash the tuple of what went into
  it, a token cannot be guessed.
* *Wording*: the texts of reports, logs, mails and errors, and how an error is wrapped.
* *Read-only listings* that are one query: API keys, sessions without names, factors.
* *The host's parts*: senders, geolocator, breach service, language model and claims
  provider enter as calls that answer anything or fail.
* *The smoke tests* under `cmd/smoketest`, two fifths of the repository's Go code outside the
  tests: example programs that call the public functions one after the other.
* *The Postgres migrations*, which the engine ships and an operator applies.
* *Crashes of a request*, apart from `AuditTrail` and `Startup`: no handler keeps state
  between requests, and a process that dies between two store calls leaves the database
  as the failure of the second call does, which `StoreError` covers.
* *Isolation*: a single SQL statement is atomic, except for those of Postgres that write many
  rows of one table, `RevokeFamily` and `RevokeAllForUser` (in `Sessions` and in `Accounts`) and
  the DELETE of `ReplaceAll` (in `SecondFactor`): they are modelled as a scan and a commit.
  Cascades of a deleted user are atomic with it, since the foreign keys' locks keep a
  concurrent insert out. Connection loss after a commit is modelled for Redis only.
* *The passkey's signature counter*, which the WebAuthn library keeps inside its blob.
* *Out of the prover's reach*: liveness and `ENABLED`, inductions over data.

## Plan

1. Done: the request modules (`Sessions` to `Detection`), the composition `Directory`,
   `AuditTrail`, `Startup`, and the stateless components of `MCComponents`.
2. Done: abstract promises for the four components that others build on (`TokenFamilies`,
   `AddressBook`, `OneTimeCodes`, `SchemaVersions`), each implemented by the detailed module.
3. Done: proofs of every invariant, action property and refinement that a run checks.
4. Open: an abstract promise for `AuditTrail`'s digests (consecutive reports cover the trail), and
   the Postgres migrations, should the engine ever apply them itself.
