----------------------------- MODULE AuditTrail -----------------------------
(***************************************************************************)
(* The audit trail: handlers record events through the webhook recorder    *)
(* into one of the three stores, while an administrator builds digests,    *)
(* tuning reports and login diagnoses from several separate reads of the   *)
(* same tables.                                                            *)
(*                                                                         *)
(* The handlers are those whose effects a report is compared with: a       *)
(* failed login with its lockout, the deletion of the account, and Record  *)
(* alone for the rest.  There is one account.  A tick is the resolution of *)
(* the created_at column.                                                  *)
(***************************************************************************)
EXTENDS Integers, Sequences, FiniteSets

CONSTANTS Requests,        \* goroutines serving requests
          Others,          \* events [type, user] that other handlers record
          HostType,        \* an event type of the host's own
          Sinces,          \* the windows asked for
          Backends,        \* stores to check: "postgres", "sqlite", "memory"
          Threshold,       \* Config.Lockout.Threshold
          LockoutDuration, \* Config.Lockout.Duration
          HighlightLimit,  \* digestHighlightLimit
          HistoryLimit,    \* diagnosisHistoryLimit
          MinLocked,       \* lockoutSuggestions' least number of lockouts
          MinSuccesses,    \* anomalySuggestions' meaningfulSample
          None,
          Loads,           \* [reports, handlers]: the reports that are asked
                           \* for, and the handlers that run meanwhile
          MaxClock, MaxEvents \* bounds

ASSUME LockoutAssumption == Threshold \in Nat /\ LockoutDuration \in Nat
ASSUME LimitsAssumption == HighlightLimit \in Nat \ {0} /\ HistoryLimit \in Nat \ {0}
ASSUME SincesAssumption == Sinces \subseteq Nat

User == "u"

VARIABLES
  backend,   \* the configured store
  clock,
  account,   \* the users row: [exists, failed, lockedUntil]
  trail,     \* audit_events: rows [ev, type, user, at]
  writer,    \* writer[r]: where request r is, and the event in its hands
  notices,   \* what the sender was given; nth counts repetitions
  begun,     \* history: the events that Record was called with
  unrecorded,\* history: events whose INSERT failed, or never came
  unsent,    \* history: events whose SendWebhook failed, or never came
  admin,     \* the report being built
  digest,    \* the last digest, or None
  previous,  \* the one before it, or None
  agenda,    \* the reports that are still to be asked for
  handlers   \* the handlers that requests are for

trailVars == <<account, trail, writer, notices, begun, unrecorded, unsent>>
adminVars == <<admin, digest, previous, agenda>>
vars == <<backend, clock, handlers, trailVars, adminVars>>

-----------------------------------------------------------------------------
(* Event types *)

EventTypes ==
  {"signup_success", "login_success", "login_failed", "logout", "logout_all",
   "token_rotated", "token_reuse_detected", "session_revoked",
   "account_locked", "password_changed", "email_change_requested",
   "email_changed", "account_deleted", "oauth_linked", "totp_enabled",
   "totp_disabled", "totp_challenge_failed", "webauthn_registered",
   "webauthn_removed", "webauthn_challenge_failed", "magic_link_requested",
   "recovery_codes_generated", "recovery_code_used", "recovery_code_failed",
   "password_breach_rejected", "anomaly_detected",
   "credential_stuffing_detected", "password_hash_upgraded",
   "api_key_created", "api_key_revoked", "api_key_rejected"}

\* What the host records through the store is none of the engine's events.
ASSUME HostTypeAssumption == HostType \notin EventTypes

\* Config.WebhookEvents is left to its default.
DefaultWebhookEvents ==
  {"signup_success", "account_deleted", "password_changed", "email_changed",
   "oauth_linked", "totp_enabled", "totp_disabled", "webauthn_registered",
   "webauthn_removed", "recovery_codes_generated", "api_key_created",
   "api_key_revoked", "account_locked", "token_reuse_detected",
   "anomaly_detected", "credential_stuffing_detected"}

DigestSections ==
  << {"account_locked", "token_reuse_detected", "anomaly_detected",
      "credential_stuffing_detected"},
     {"signup_success", "account_deleted", "password_changed",
      "password_breach_rejected", "password_hash_upgraded",
      "email_change_requested", "email_changed"},
     {"login_success", "login_failed", "magic_link_requested", "logout",
      "logout_all", "session_revoked", "token_rotated"},
     {"oauth_linked", "totp_enabled", "totp_disabled",
      "totp_challenge_failed", "webauthn_registered", "webauthn_removed",
      "webauthn_challenge_failed", "recovery_codes_generated",
      "recovery_code_used", "recovery_code_failed"},
     {"api_key_created", "api_key_revoked", "api_key_rejected"} >>

DigestAttentionTypes == DigestSections[1]

LoginFailureTypes ==
  {"login_failed", "account_locked", "totp_challenge_failed",
   "webauthn_challenge_failed", "recovery_code_failed", "anomaly_detected",
   "credential_stuffing_detected"}

-----------------------------------------------------------------------------
(* created_at.  SQLite keeps it as text and compares it as text.           *)

\* A time as the characters of its text: the whole units, the point (0), two
\* fractional digits (1 is "0", 2 is "1") and the zone (9 is "Z").
Digits(t) == << (t \div 4) + 1, 0, ((t \div 2) % 2) + 1, (t % 2) + 1 >>

\* Mutant: time.RFC3339Nano, which trims the zeros at the end.
FormatTimeNano(t) ==
  LET d == Digits(t)
  IN  CASE t % 4 = 0 -> <<d[1], 9>>
        [] t % 2 = 0 -> <<d[1], d[2], d[3], 9>>
        [] OTHER     -> d \o <<9>>

FormatTime(t) == Digits(t) \o <<9>>

\* s comes before t, character by character.
TextBefore(s, t) ==
  \/ \E k \in 1..Len(s) : /\ k <= Len(t) /\ s[k] < t[k]
                          /\ \A j \in 1..(k - 1) : s[j] = t[j]
  \/ Len(s) < Len(t) /\ \A j \in 1..Len(s) : s[j] = t[j]

\* created_at < other, as the store's query compares them.
Earlier(at, other) ==
  IF backend = "sqlite" THEN TextBefore(FormatTime(at), FormatTime(other))
  ELSE at < other

-----------------------------------------------------------------------------
(* AuditStore *)

\* The reads that say "newest first, at most limit": which of several rows
\* with one timestamp come first is up to the store.
Newest(rows, limit) ==
  {s \in SUBSET rows :
     /\ Cardinality(s) = IF Cardinality(rows) < limit THEN Cardinality(rows)
                         ELSE limit
     /\ \A x \in s, y \in rows \ s : ~Earlier(x.at, y.at)}

\* The memory store walks its slice from the end.
NewestInserted(rows, limit) ==
  {s \in SUBSET rows :
     /\ Cardinality(s) = IF Cardinality(rows) < limit THEN Cardinality(rows)
                         ELSE limit
     /\ \A x \in s, y \in rows \ s : x.seq > y.seq}

Latest(rows, limit) ==
  IF backend = "memory" THEN NewestInserted(rows, limit)
  ELSE Newest(rows, limit)

ListByUser(limit) == Latest({row \in trail : row.user = User}, limit)

SearchByType(type, limit) == Latest({row \in trail : row.type = type}, limit)

\* Mutant: an event at the very beginning of the window is not counted.
InWindowAfter(since) == {row \in trail : Earlier(since, row.at)}

\* The rows that CountByType counts.
InWindow(since) == {row \in trail : ~Earlier(row.at, since)}

CountByType(since) ==
  [type \in {row.type : row \in InWindow(since)} |->
     Cardinality({row \in InWindow(since) : row.type = type})]

\* The stores with a foreign key from audit_events to users.
ChecksUser == backend # "memory"

-----------------------------------------------------------------------------
(* Requests *)

Idle == [pc |-> "idle", ev |-> 0, type |-> "", user |-> "", at |-> 0,
         then |-> "idle"]

NextEvent == Cardinality(begun) + 1

\* Call webhookRecorder.Record and go on to "then" when it has returned.
StartRecord(r, type, user, then) ==
  /\ writer' = [writer EXCEPT ![r] =
                  [pc |-> "stamp", ev |-> NextEvent, type |-> type,
                   user |-> user, at |-> 0, then |-> then]]
  /\ begun' = begun \cup {[ev |-> NextEvent, type |-> type]}

At(r, pc) == writer[r].pc = pc

\* The handler goes on to pc; an idle one holds nothing.
Goto(r, pc) ==
  writer' = [writer EXCEPT ![r] = IF pc = "idle" THEN Idle
                                  ELSE [@ EXCEPT !.pc = pc]]

\* Record returns.
Return(r) == Goto(r, writer[r].then)

Arrives(r, handler) ==
  /\ At(r, "idle")
  /\ handler \in handlers
  /\ Cardinality(begun) < MaxEvents

\* A wrong password; recordLoginFailure comes before the counter.
LoginFails(r) ==
  /\ Arrives(r, "login")
  /\ account.exists /\ clock >= account.lockedUntil
  /\ StartRecord(r, "login_failed", User, "increment")
  /\ UNCHANGED <<account, trail, notices, unrecorded, unsent>>

\* DeleteAccount records first, because the row loses its user afterwards.
DeleteAccount(r) ==
  /\ Arrives(r, "delete")
  /\ account.exists
  /\ StartRecord(r, "account_deleted", User, "delete")
  /\ UNCHANGED <<account, trail, notices, unrecorded, unsent>>

RecordOther(r, event) ==
  /\ Arrives(r, "other")
  /\ StartRecord(r, event.type, event.user, "idle")
  /\ UNCHANGED <<account, trail, notices, unrecorded, unsent>>

\* The time of the row is read before the INSERT takes effect: time.Now() in
\* SQLite's Record, now() of the statement in Postgres.
Stamp(r) ==
  /\ At(r, "stamp") /\ backend # "memory"
  /\ writer' = [writer EXCEPT ![r].pc = "insert", ![r].at = clock]
  /\ UNCHANGED <<account, trail, notices, begun, unrecorded, unsent>>

\* Where Record goes when the store has answered.
AfterInsert(w) == IF w.type \in DefaultWebhookEvents THEN "notify" ELSE w.then

\* "seq" is the row's place in the memory store's slice.
Row(ev, type, user, at) ==
  [ev |-> ev, type |-> type, user |-> user, at |-> at,
   seq |-> IF backend = "memory" THEN Cardinality(trail) + 1 ELSE 0]

\* Under its mutex the memory store stamps and appends at once.
Insert(r) ==
  LET w == writer[r]
  IN  /\ \/ At(r, "insert")
         \/ At(r, "stamp") /\ backend = "memory"
      /\ w.user = "" \/ account.exists \/ ~ChecksUser
      /\ trail' = trail \cup
           {Row(w.ev, w.type, w.user,
                IF backend = "memory" THEN clock ELSE w.at)}
      /\ Goto(r, AfterInsert(w))
      /\ UNCHANGED <<account, notices, begun, unrecorded, unsent>>

\* Mutant: a failed audit write cancels the notification.
InsertFailsQuietly(r) ==
  /\ At(r, "insert")
  /\ Return(r)
  /\ unrecorded' = unrecorded \cup {writer[r].ev}
  /\ UNCHANGED <<account, trail, notices, begun, unsent>>

\* The INSERT fails, as it must where the user is gone.  The notification is
\* sent all the same.
InsertFails(r) ==
  /\ At(r, "insert")
  /\ Goto(r, AfterInsert(writer[r]))
  /\ unrecorded' = unrecorded \cup {writer[r].ev}
  /\ UNCHANGED <<account, trail, notices, begun, unsent>>

\* notify.WebhookEvent; "nth" counts the deliveries of one event.
WebhookEvent(w, nth) == [ev |-> w.ev, type |-> w.type, nth |-> nth]

\* SendWebhook.  An id that could not be generated is the empty one, and the
\* event goes out all the same.
SendWebhook(r) ==
  /\ At(r, "notify")
  /\ LET before == {n \in notices : n.ev = writer[r].ev}
     IN  notices' = notices \cup
                      {WebhookEvent(writer[r], Cardinality(before) + 1)}
  /\ Return(r)
  /\ UNCHANGED <<account, trail, begun, unrecorded, unsent>>

\* The sender returns an error, which is logged, or panics, which ends the
\* request.
SendFails(r) ==
  /\ At(r, "notify")
  /\ unsent' = unsent \cup {writer[r].ev}
  /\ Return(r) \/ Goto(r, "idle")
  /\ UNCHANGED <<account, trail, notices, begun, unrecorded>>

\* IncrementFailedAttempts; an account that is gone is an error.
Increment(r) ==
  /\ At(r, "increment")
  /\ LET failed == account.failed + 1
     IN  /\ account' = IF account.exists
                       THEN [account EXCEPT !.failed = failed] ELSE account
         /\ Goto(r, IF account.exists /\ failed >= Threshold THEN "lock"
                    ELSE "idle")
  /\ UNCHANGED <<trail, notices, begun, unrecorded, unsent>>

\* Mutant: the lock is not recorded.
LockAccountSilently(r) ==
  /\ At(r, "lock")
  /\ account' = IF account.exists
                THEN [account EXCEPT !.lockedUntil = clock + LockoutDuration]
                ELSE account
  /\ Goto(r, "idle")
  /\ UNCHANGED <<trail, notices, begun, unrecorded, unsent>>

\* LockAccount, and account_locked only where it succeeded.
LockAccount(r) ==
  /\ At(r, "lock")
  /\ \/ /\ account.exists
        /\ account' = [account EXCEPT !.lockedUntil = clock + LockoutDuration]
        /\ StartRecord(r, "account_locked", User, "idle")
     \/ /\ Goto(r, "idle")
        /\ UNCHANGED <<account, begun>>
  /\ UNCHANGED <<trail, notices, unrecorded, unsent>>

\* UserStore.Delete: SET NULL by the foreign key or by hand; the memory store
\* leaves its events alone.
DeleteUser(r) ==
  /\ At(r, "delete")
  /\ account' = [account EXCEPT !.exists = FALSE]
  /\ trail' = IF backend = "memory" THEN trail
              ELSE {[row EXCEPT !.user = ""] : row \in trail}
  /\ Goto(r, "idle")
  /\ UNCHANGED <<notices, begun, unrecorded, unsent>>

\* The process dies.  The memory store would die with it.
Crash ==
  LET held(pcs) == {writer[r].ev : r \in {q \in Requests : writer[q].pc \in pcs}}
  IN  /\ backend # "memory"
      /\ \E r \in Requests : ~At(r, "idle")
      /\ writer' = [r \in Requests |-> Idle]
      /\ unrecorded' = unrecorded \cup held({"stamp", "insert"})
      /\ unsent' = unsent \cup held({"stamp", "insert", "notify"})
      /\ UNCHANGED <<account, trail, notices, begun>>

\* The host writes an event of its own through the store it passed in.
HostRecords ==
  /\ "host" \in handlers
  /\ Cardinality(begun) < MaxEvents
  /\ begun' = begun \cup {[ev |-> NextEvent, type |-> HostType]}
  /\ trail' = trail \cup {Row(NextEvent, HostType, "", clock)}
  /\ UNCHANGED <<account, writer, notices, unrecorded, unsent>>

RequestStep(r) ==
  \/ LoginFails(r) \/ DeleteAccount(r)
  \/ \E event \in Others : RecordOther(r, event)
  \/ Stamp(r) \/ Insert(r) \/ InsertFails(r)
  \/ SendWebhook(r) \/ SendFails(r)
  \/ Increment(r) \/ LockAccount(r) \/ DeleteUser(r)

-----------------------------------------------------------------------------
(* Reports.  Every read may fail, and then there is no report. *)

AdminIdle == [pc |-> "idle"]

CountOf(counts, type) == IF type \in DOMAIN counts THEN counts[type] ELSE 0

ReportArrives(kind) ==
  /\ admin.pc = "idle"
  /\ agenda # <<>> /\ Head(agenda) = kind
  /\ agenda' = Tail(agenda)

\* What is being recorded and not yet in the table.
InFlight == {writer[r].ev : r \in {q \in Requests : At(q, "insert")}}

\* DigestSince; WeeklyDigest passes a time a week ago.
DigestSince(since) ==
  /\ ReportArrives("digest")
  /\ admin' = [pc |-> "count", start |-> clock, since |-> since]
  /\ UNCHANGED <<digest, previous>>

\* BuildDigest's CountByType.  "rows" and "inFlight" are history.
DigestCount ==
  /\ admin.pc = "count"
  /\ LET counts == CountByType(admin.since)
     IN  admin' = [pc |-> "search", start |-> admin.start,
                   since |-> admin.since, counts |-> counts,
                   todo |-> DigestAttentionTypes \cap DOMAIN counts,
                   shown |-> {}, rows |-> InWindow(admin.since),
                   inFlight |-> InFlight]
  /\ UNCHANGED <<digest, previous, agenda>>

\* One SearchByType for each attention type that was counted.  The window is
\* applied to its result in Go.
DigestSearch ==
  /\ admin.pc = "search"
  /\ \E type \in admin.todo : \E found \in SearchByType(type, HighlightLimit) :
       admin' = [admin EXCEPT
                   !.todo = @ \ {type},
                   !.shown = @ \cup {row \in found : row.at >= admin.since}]
  /\ UNCHANGED <<digest, previous, agenda>>

DigestDone ==
  /\ admin.pc = "search" /\ admin.todo = {}
  /\ digest' = [start |-> admin.start, since |-> admin.since, until |-> clock,
                counts |-> admin.counts, shown |-> admin.shown,
                rows |-> admin.rows, inFlight |-> admin.inFlight]
  /\ previous' = IF digest = None THEN None
                 ELSE [start |-> digest.start, since |-> digest.since,
                       rows |-> digest.rows, inFlight |-> digest.inFlight]
  /\ admin' = AdminIdle
  /\ UNCHANGED agenda

\* Digest.unclassifiedTypes.
UnclassifiedTypes(d) ==
  DOMAIN d.counts \ UNION {DigestSections[k] : k \in 1..Len(DigestSections)}

\* Digest.Text: for every section the lines it prints, with their counts.
Text(d) ==
  [k \in 1..(Len(DigestSections) + 1) |->
     {<<type, d.counts[type]>> :
        type \in IF k <= Len(DigestSections)
                 THEN DigestSections[k] \cap DOMAIN d.counts
                 ELSE UnclassifiedTypes(d)}]

\* capNote: does the text say that not all events of the type are listed?
CapNote(shown, total) == shown # 0 /\ shown < total

-----------------------------------------------------------------------------
(* BuildTuningReport: one query, then arithmetic on its counts. *)

LockoutAdvice(counts) ==
  LET locked == CountOf(counts, "account_locked")
      failed == CountOf(counts, "login_failed")
  IN  failed # 0 /\ locked >= MinLocked /\ 10 * locked >= failed

AnomalyAdvice(counts, enabled) ==
  LET successes == CountOf(counts, "login_success")
      flagged == CountOf(counts, "anomaly_detected")
  IN  \/ ~enabled
      \/ flagged = 0 /\ successes >= MinSuccesses
      \/ successes > 0 /\ flagged > 0 /\ 5 * flagged >= successes

StuffingAdvice(counts, enabled) ==
  enabled /\ CountOf(counts, "credential_stuffing_detected") > 0

PasswordAdvice(counts, checker) ==
  ~checker \/ CountOf(counts, "password_breach_rejected") > 0

\* The areas that a report has a suggestion for.  rateLimiterSuggestions asks
\* only which limiter is configured.
Suggestions(counts, parts) ==
  {area \in {"lockout", "rate_limiting", "anomaly", "stuffing", "password"} :
     CASE area = "lockout"       -> LockoutAdvice(counts)
       [] area = "rate_limiting" -> "own_limiter" \notin parts
       [] area = "anomaly"       -> AnomalyAdvice(counts, "anomalies" \in parts)
       [] area = "stuffing"      -> StuffingAdvice(counts, "anomalies" \in parts)
       [] area = "password"      -> PasswordAdvice(counts, "checker" \in parts)}

\* TuningReportSince.
BuildTuningReport(since, parts) ==
  /\ ReportArrives("tuning")
  /\ admin' = [pc |-> "tuned", since |-> since, parts |-> parts,
               areas |-> Suggestions(CountByType(since), parts)]
  /\ UNCHANGED <<digest, previous>>

-----------------------------------------------------------------------------
(* DiagnoseLogin: the users row, the sessions (only counted, and left out   *)
(* here) and the account's history are read one after the other.            *)

DiagnoseUser ==
  /\ ReportArrives("diagnosis")
  /\ admin' = IF account.exists
              THEN [pc |-> "history", failed |-> account.failed,
                    locked |-> account.lockedUntil > clock]
              ELSE [pc |-> "diagnosed", found |-> FALSE]
  /\ UNCHANGED <<digest, previous>>

DiagnoseHistory ==
  /\ admin.pc = "history"
  /\ \E events \in ListByUser(HistoryLimit) :
       admin' = [pc |-> "diagnosed", found |-> TRUE, failed |-> admin.failed,
                 locked |-> admin.locked, events |-> events]
  /\ UNCHANGED <<digest, previous, agenda>>

\* LoginDiagnosis.recentFailureEvents.
RecentFailureEvents(d) == {row \in d.events : row.type \in LoginFailureTypes}

\* A finished report is handed over, or a read failed.
ReportReturns ==
  /\ admin.pc # "idle"
  /\ admin' = AdminIdle
  /\ UNCHANGED <<digest, previous, agenda>>

AdminStep ==
  \/ \E since \in Sinces : DigestSince(since)
  \/ DigestCount \/ DigestSearch \/ DigestDone
  \/ \E parts \in SUBSET {"anomalies", "checker"} : BuildTuningReport(0, parts)
  \/ DiagnoseUser \/ DiagnoseHistory
  \/ ReportReturns

-----------------------------------------------------------------------------

Init ==
  /\ backend \in Backends
  /\ clock = 0
  /\ account = [exists |-> TRUE, failed |-> 0, lockedUntil |-> 0]
  /\ trail = {}
  /\ writer = [r \in Requests |-> Idle]
  /\ notices = {}
  /\ begun = {} /\ unrecorded = {} /\ unsent = {}
  /\ admin = AdminIdle /\ digest = None /\ previous = None
  /\ \E load \in Loads : agenda = load.reports /\ handlers = load.handlers

Tick ==
  /\ clock < MaxClock
  /\ clock' = clock + 1
  /\ UNCHANGED <<backend, handlers, trailVars, adminVars>>

Next ==
  \/ /\ (\E r \in Requests : RequestStep(r)) \/ Crash \/ HostRecords
     /\ UNCHANGED <<backend, clock, handlers, adminVars>>
  \/ /\ AdminStep
     /\ UNCHANGED <<backend, clock, handlers, trailVars>>
  \/ Tick

Spec == Init /\ [][Next]_vars

-----------------------------------------------------------------------------
(* Properties *)

Held(ev) ==
  \E r \in Requests : /\ writer[r].ev = ev
                      /\ writer[r].pc \in {"stamp", "insert", "notify"}

(***************************************************************************)
(* A subscribed event is announced once, unless its send failed or the     *)
(* process died on the way, and whether or not its row could be written;   *)
(* other events are not announced.  Whoever hears of an event finds its    *)
(* row, unless the INSERT failed.                                          *)
(* (webhookRecorder.Record)                                                *)
(***************************************************************************)
NoticeFollowsRow ==
  /\ \A e \in begun :
       LET sent == {n \in notices : n.ev = e.ev}
       IN  IF e.type \in DefaultWebhookEvents
           THEN /\ Cardinality(sent) <= 1
                /\ sent = {} => Held(e.ev) \/ e.ev \in unsent
           ELSE sent = {}
  /\ \A n \in notices :
       n.ev \in unrecorded \/ \E row \in trail : row.ev = n.ev /\ row.type = n.type

(***************************************************************************)
(* A digest adds up although its counts and its details are read at        *)
(* different times: every counted type is printed once; what is counted    *)
(* and not listed was left out because of the cap, which the text then     *)
(* says, and is no newer than anything listed; and everything in it lies   *)
(* between since and until.  (BuildDigest, Text, CountByType, SearchByType) *)
(***************************************************************************)
DigestAddsUp ==
  digest # None =>
    /\ \A type \in DOMAIN digest.counts :
         Cardinality({k \in DOMAIN Text(digest) :
                        <<type, digest.counts[type]>> \in Text(digest)[k]}) = 1
    /\ \A type \in DigestAttentionTypes :
         LET shown == {row \in digest.shown : row.type = type}
             counted == {row \in digest.rows : row.type = type}
             total == CountOf(digest.counts, type)
             listed == {row.ev : row \in shown}
         IN  /\ Cardinality(shown) < total =>
                  /\ Cardinality(shown) = HighlightLimit
                  /\ CapNote(Cardinality(shown), total)
             /\ \A x \in counted, y \in shown : x.ev \in listed \/ x.at <= y.at
    /\ \A row \in digest.shown \cup digest.rows :
         digest.since <= row.at /\ row.at <= digest.until

(***************************************************************************)
(* Of two digests, the second from no later than the first was begun, only *)
(* rows that were on their way into the table when one of the two counted, *)
(* the first or the second, can be in neither; in the memory store there   *)
(* are none.                                                               *)
(* (created_at is stamped before the row is visible)                       *)
(***************************************************************************)
DigestsMissOnlyInFlight ==
  digest # None /\ previous # None /\ digest.since <= previous.start =>
      \A row \in trail :
        /\ row.at >= previous.since
        /\ row.at < digest.start
        => \/ row.ev \in {x.ev : x \in previous.rows \cup digest.rows}
           \/ row.ev \in previous.inFlight \cup digest.inFlight

(***************************************************************************)
(* A diagnosis that finds the account locked shows the event that says so, *)
(* unless newer events fill it, the account was deleted meanwhile, or the  *)
(* lock's event is still being recorded or was lost.                       *)
(* (DiagnoseLogin reads the lock first; Login locks first and then records)*)
(***************************************************************************)
LockIsExplained ==
  [][DiagnoseHistory /\ admin.locked
     => \/ \E row \in RecentFailureEvents(admin') : row.type = "account_locked"
        \/ Cardinality(admin'.events) = HistoryLimit
        \/ ~account.exists
        \/ \E e \in begun : /\ e.type = "account_locked"
                            /\ e.ev \in unrecorded \/ Held(e.ev)]_vars

=============================================================================
