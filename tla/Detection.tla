----------------------------- MODULE Detection -----------------------------
(***************************************************************************)
(* Anomaly and credential-stuffing detection: the history of login         *)
(* attempts, the judgement of a login that succeeded against it, and the   *)
(* judgement of an address by how many accounts it failed to log in to.    *)
(*                                                                         *)
(* Nothing here decides a login; what can go wrong is that an event is not *)
(* recorded, or recorded over and over.  The stores are the SQL ones.  The *)
(* sessions and the token_reuse_detected events, which other components    *)
(* write, are inputs.  Signals has the two evaluations.                    *)
(***************************************************************************)
EXTENDS Integers, Sequences, FiniteSets, Signals

CONSTANTS Users,
          IPs,
          Agents,         \* user agents
          Requests,       \* goroutines serving logins
          TargetAccounts, \* CredentialStuffingThresholds
          StuffingWindow,
          Cooldown,
          ScanLimit,      \* stuffingAuditScanLimit
          HistorySize,    \* AnomalyThresholds
          AnomalyWindow,
          UserFailureVelocity,
          IPFailureVelocity,
          MaxConcurrentSessions,
          TokenReuseLookback,
          MaxLogins,      \* bound on the logins
          MaxTime,        \* bound on the clock
          MaxErrors,      \* bound on the store calls that return an error
          MaxDeletions    \* bound on the accounts that are deleted

ASSUME ThresholdsAssumption ==
  /\ {TargetAccounts, UserFailureVelocity, IPFailureVelocity} \subseteq Nat \ {0}
  /\ {ScanLimit, HistorySize} \subseteq Nat \ {0}
  /\ {StuffingWindow, AnomalyWindow, Cooldown} \subseteq Nat \ {0}
  /\ {MaxConcurrentSessions, TokenReuseLookback} \subseteq Nat
ASSUME BoundsAssumption ==
  {MaxLogins, MaxTime, MaxErrors, MaxDeletions} \subseteq Nat
ASSUME NoneAssumption == None \notin Users \cup IPs \cup Agents

VARIABLES
  users,    \* the accounts that exist; None is an email without one
  attempts, \* login_attempts, oldest first; target is history: the account the
            \* attempt named, also after it was deleted
  flags,    \* the credential_stuffing_detected events, oldest first; unchecked
            \* is history: the cooldown lookup had failed
  now,      \* the clock
  req,      \* req[r]: where login r is, and what it holds
  logins,   \* logins so far, for the bound
  errors,   \* failed store calls so far, for the bound
  blind,    \* history: addresses whose last count, or the event after it, failed
  silent    \* history: signals that were due at a login and not given

vars == <<users, attempts, flags, now, req, logins, errors, blind, silent>>

Time == 0..MaxTime
Target == Users \cup {None}
Agent == Agents \cup {None}

\* The user agent of a failure is stored and never read.
Attempt == [user : Target, target : Target, ip : IPs, agent : Agent,
            time : Time, success : BOOLEAN]

Flag == [ip : IPs, time : Time, unchecked : BOOLEAN]

PCs == {"idle", "user_failures", "ip_failures", "record_success",
        "record_failure", "count", "cooldown", "flag"}

Observations ==
  [history : BOOLEAN, knownIPs : SUBSET IPs, knownAgents : SUBSET Agents,
   userFailures : Nat, ipFailures : Nat, reuses : Nat, active : Nat]

\* missed: the signals whose read failed.  due is history: the signals the
\* state at the request's first read calls for.
Request == [pc : PCs, user : Target, ip : IPs \cup {None}, agent : Agent,
            start : Time, obs : Observations, missed : SUBSET AnomalySignal,
            due : SUBSET AnomalySignal, unchecked : BOOLEAN]

Idle == [pc |-> "idle", user |-> None, ip |-> None, agent |-> None,
         start |-> 0, obs |-> NoEvidence, missed |-> {}, due |-> {},
         unchecked |-> FALSE]

TypeOK ==
  /\ users \subseteq Users
  /\ attempts \in Seq(Attempt)
  /\ flags \in Seq(Flag)
  /\ now \in Time
  /\ req \in [Requests -> Request]
  /\ logins \in 0..MaxLogins
  /\ errors \in 0..MaxErrors
  /\ blind \subseteq IPs
  /\ silent \subseteq AnomalySignal

Init ==
  /\ users = Users
  /\ attempts = <<>>
  /\ flags = <<>>
  /\ now = 0
  /\ req = [r \in Requests |-> Idle]
  /\ logins = 0
  /\ errors = 0
  /\ blind = {}
  /\ silent = {}

At(r, pc) == req[r].pc = pc
Return(r) == req' = [req EXCEPT ![r] = Idle]

\* A store call answers, or returns an error.
Answers == UNCHANGED errors
Fails == errors < MaxErrors /\ errors' = errors + 1

Anomalous ==
  AnomalyThresholds(AnomalyWindow, HistorySize, UserFailureVelocity,
                    IPFailureVelocity, MaxConcurrentSessions,
                    TokenReuseLookback)
Stuffing == StuffingThresholds(StuffingWindow, TargetAccounts, Cooldown)

Positions == DOMAIN attempts
Failures(since) ==
  {i \in Positions : ~attempts[i].success /\ attempts[i].time >= since}

FailuresFrom(ip, since) == {i \in Failures(since) : attempts[i].ip = ip}

\* Is the row for this user accepted by the foreign key of its table?
References(u) == u \in users \cup {None}

-----------------------------------------------------------------------------
(* detectLoginAnomalies *)

Successes(u) == {i \in Positions : attempts[i].user = u /\ attempts[i].success}

\* ListRecentSuccesses: the newest HistorySize of them.
ListRecentSuccesses(u) ==
  {i \in Successes(u) :
     Cardinality({j \in Successes(u) : j > i}) < HistorySize}

\* Mutant: failures are history too.
KnownIPsOfFailures(u) ==
  {attempts[i].ip : i \in {j \in Positions : attempts[j].user = u}}

KnownIPs(u) == {attempts[i].ip : i \in ListRecentSuccesses(u)}

KnownAgents(u) == {attempts[i].agent : i \in ListRecentSuccesses(u)} \ {None}

\* What an observer of the whole history calls for when the login arrives: its
\* address, or its user agent, was never seen at an account that was logged in
\* to before, and the account, or the address, has had too many failures.
Due(u, ip, agent) ==
  LET past == {a \in Positions : attempts[a].user = u /\ attempts[a].success}
      failed == Failures(now - AnomalyWindow)
  IN  {s \in AnomalySignal :
         \/ /\ s = "new_ip"
            /\ past # {}
            /\ \A a \in past : attempts[a].ip # ip
         \/ /\ s = "new_device"
            /\ past # {} /\ agent # None
            /\ \A a \in past : attempts[a].agent # agent
         \/ /\ s = "user_failure_velocity"
            /\ Cardinality({a \in failed : attempts[a].user = u})
                 >= UserFailureVelocity
         \/ /\ s = "ip_failure_velocity"
            /\ Cardinality({a \in failed : attempts[a].ip = ip})
                 >= IPFailureVelocity}

\* A read of a request: its result, or, if it fails, no evidence for the
\* signals that are judged by it.
Read(r, q, obs, signals, next) ==
  \/ /\ Answers
     /\ req' = [req EXCEPT ![r] = [q EXCEPT !.obs = obs, !.pc = next]]
  \/ /\ Fails
     /\ req' = [req EXCEPT ![r] = [q EXCEPT !.missed = @ \cup signals,
                                           !.pc = next]]

\* The primary factor of u is verified: gatherObservations' first read.
LoginSucceeds(r, u, ip, agent) ==
  /\ At(r, "idle")
  /\ logins < MaxLogins
  /\ logins' = logins + 1
  /\ u \in users
  /\ Read(r, [Idle EXCEPT !.user = u, !.ip = ip, !.agent = agent,
                          !.start = now, !.due = Due(u, ip, agent)],
          [NoEvidence EXCEPT !.history = ListRecentSuccesses(u) # {},
                             !.knownIPs = KnownIPs(u),
                             !.knownAgents = KnownAgents(u)],
          {"new_ip", "new_device"}, "user_failures")
  /\ UNCHANGED <<users, attempts, flags, now, blind, silent>>

\* CountFailuresForUser, since the request's own start less the window.
CountFailuresForUser(r) ==
  Cardinality({i \in Failures(req[r].start - AnomalyWindow) :
                 attempts[i].user = req[r].user})

UserFailures(r) ==
  /\ At(r, "user_failures")
  /\ Read(r, req[r],
          [req[r].obs EXCEPT !.userFailures = CountFailuresForUser(r)],
          {"user_failure_velocity"}, "ip_failures")
  /\ UNCHANGED <<users, attempts, flags, now, blind, logins, silent>>

CountFailuresForIP(r) ==
  Cardinality(FailuresFrom(req[r].ip, req[r].start - AnomalyWindow))

IPFailures(r) ==
  /\ At(r, "ip_failures")
  /\ Read(r, req[r], [req[r].obs EXCEPT !.ipFailures = CountFailuresForIP(r)],
          {"ip_failure_velocity"}, "record_success")
  /\ UNCHANGED <<users, attempts, flags, now, blind, logins, silent>>

\* RecordAttempt's row; the store stamps it.
Row(r, success) ==
  [user |-> req[r].user, target |-> req[r].user, ip |-> req[r].ip,
   agent |-> req[r].agent, time |-> now, success |-> success]

\* A row that is not stored is only logged.
RecordLoginAttempt(r, success) ==
  \/ /\ References(req[r].user)
     /\ attempts' = Append(attempts, Row(r, success))
     /\ Answers
  \/ /\ Fails \/ (Answers /\ ~References(req[r].user))
     /\ UNCHANGED attempts

\* The next stop of a request that has no more to judge than its address.
ToCount(r) ==
  req' = [req EXCEPT ![r] = [Idle EXCEPT !.pc = "count", !.user = req[r].user,
                                         !.ip = req[r].ip]]

\* What the two reads of other components' tables add to the observations.
Answered(obs, active, reuses) == [obs EXCEPT !.active = active, !.reuses = reuses]

\* The reads of the sessions and, unless the lookback is 0, of the user's
\* newest audit events: any answer that Evaluate tells from others, which 0
\* for a read that failed is one of.
Elsewhere(obs) ==
  { Answered(obs, active, reuses) :
      active \in {0, MaxConcurrentSessions + 1},
      reuses \in IF TokenReuseLookback > 0 THEN {0, 1} ELSE {0} }

\* Evaluate, the anomaly_detected event, if there are signals, and then the
\* attempt.
RecordSuccess(r) ==
  /\ At(r, "record_success")
  /\ \E obs \in Elsewhere(req[r].obs) :
       LET signals == Evaluate(Anomalous, Context(req[r].ip, req[r].agent), obs)
       IN  silent' = IF req[r].user \in users
                     THEN silent \cup (req[r].due \ (signals \cup req[r].missed))
                     ELSE silent
  /\ RecordLoginAttempt(r, TRUE)
  /\ ToCount(r)
  /\ UNCHANGED <<users, flags, now, blind, logins>>

-----------------------------------------------------------------------------
(* recordLoginFailure and detectCredentialStuffing *)

\* A login fails: u is the account it named, None if there is no such account.
LoginFails(r, u, ip) ==
  /\ At(r, "idle")
  /\ logins < MaxLogins
  /\ logins' = logins + 1
  /\ References(u)
  /\ req' = [req EXCEPT ![r] = [Idle EXCEPT !.pc = "record_failure",
                                            !.user = u, !.ip = ip]]
  /\ UNCHANGED <<users, attempts, flags, now, blind, errors, silent>>

RecordFailure(r) ==
  /\ At(r, "record_failure")
  /\ RecordLoginAttempt(r, FALSE)
  /\ ToCount(r)
  /\ UNCHANGED <<users, flags, now, blind, logins, silent>>

\* CountTargetsForIP: accounts count once, unknown emails every time.
CountTargetsForIP(ip, since) ==
  LET fails == FailuresFrom(ip, since)
  IN  StuffingObservations(
        Cardinality({attempts[i].user : i \in fails} \ {None}),
        Cardinality({i \in fails : attempts[i].user = None}))

\* Mutant: one more than the threshold.
SpraysOver(ip) ==
  Breadth(CountTargetsForIP(ip, now - StuffingWindow)) > TargetAccounts

Sprays(ip) ==
  EvaluateStuffing(Stuffing, CountTargetsForIP(ip, now - StuffingWindow)) # {}

\* Mutant: the cooldown is not looked at.
CountTargetsOnly(r) ==
  /\ At(r, "count")
  /\ blind' = blind \ {req[r].ip}
  /\ IF Sprays(req[r].ip) THEN req' = [req EXCEPT ![r].pc = "flag"]
     ELSE Return(r)
  /\ UNCHANGED <<users, attempts, flags, now, logins, errors, silent>>

CountTargets(r) ==
  /\ At(r, "count")
  /\ blind' = blind \ {req[r].ip}
  /\ IF Sprays(req[r].ip) THEN req' = [req EXCEPT ![r].pc = "cooldown"]
     ELSE Return(r)
  /\ UNCHANGED <<users, attempts, flags, now, logins, errors, silent>>

\* The newest ScanLimit events.
Scanned == {i \in DOMAIN flags : i > Len(flags) - ScanLimit}

RecentlyFlagged(ip) ==
  \E i \in Scanned : flags[i].ip = ip /\ flags[i].time >= now - Cooldown

\* recentlyFlaggedForStuffing; a lookup that fails counts as "not flagged".
CooldownLookup(r) ==
  /\ At(r, "cooldown")
  /\ \/ /\ RecentlyFlagged(req[r].ip)
        /\ Answers /\ Return(r)
     \/ /\ ~RecentlyFlagged(req[r].ip)
        /\ Answers
        /\ req' = [req EXCEPT ![r].pc = "flag"]
     \/ /\ Fails
        /\ req' = [req EXCEPT ![r].pc = "flag", ![r].unchecked = TRUE]
  /\ UNCHANGED <<users, attempts, flags, now, blind, logins, silent>>

\* audit.Record of the event.
RecordFlag(r) ==
  /\ At(r, "flag")
  /\ References(req[r].user)
  /\ flags' = Append(flags, [ip |-> req[r].ip, time |-> now,
                             unchecked |-> req[r].unchecked])
  /\ Return(r)
  /\ UNCHANGED <<users, attempts, now, blind, logins, errors, silent>>

\* The count fails, or the event is not stored: only logged.
DetectionError(r) ==
  /\ \/ At(r, "count") /\ Fails
     \/ At(r, "flag") /\ (Fails \/ (Answers /\ ~References(req[r].user)))
  /\ blind' = blind \cup {req[r].ip}
  /\ Return(r)
  /\ UNCHANGED <<users, attempts, flags, now, logins, silent>>

-----------------------------------------------------------------------------

\* UserStore.Delete: the attempts stay, with user_id NULL.
DeleteUser(u) ==
  /\ u \in users
  /\ Cardinality(Users \ users) < MaxDeletions
  /\ users' = users \ {u}
  /\ attempts' = [i \in Positions |->
                    IF attempts[i].user = u THEN [attempts[i] EXCEPT !.user = None]
                    ELSE attempts[i]]
  /\ UNCHANGED <<flags, now, req, blind, logins, errors, silent>>

Tick ==
  /\ now < MaxTime
  /\ now' = now + 1
  /\ UNCHANGED <<users, attempts, flags, req, blind, logins, errors, silent>>

Continue(r) ==
  \/ UserFailures(r)
  \/ IPFailures(r)
  \/ RecordSuccess(r)
  \/ RecordFailure(r)
  \/ CountTargets(r)
  \/ CooldownLookup(r)
  \/ RecordFlag(r)
  \/ DetectionError(r)

Next ==
  \/ \E r \in Requests, u \in Users, ip \in IPs, agent \in Agent :
       LoginSucceeds(r, u, ip, agent)
  \/ \E r \in Requests, u \in Target, ip \in IPs : LoginFails(r, u, ip)
  \/ \E r \in Requests : Continue(r)
  \/ \E u \in Users : DeleteUser(u)
  \/ Tick

Spec == Init /\ [][Next]_vars

-----------------------------------------------------------------------------
(* Properties *)

\* The targets of an address as its attempts named them, in the window that
\* ends now.
Targets(ip) ==
  LET fails == FailuresFrom(ip, now - StuffingWindow)
  IN Cardinality({attempts[i].target : i \in fails} \ {None})
       + Cardinality({i \in fails : attempts[i].target = None})

\* An address that reached the threshold and has no request under way was
\* flagged no earlier than a cooldown before any of its failures in the window,
\* unless its last count or event failed ("the tenth distinct account a spray
\* touches should trip a threshold of ten at ten", detectCredentialStuffing):
\* no interleaving of the requests that make up a spray hides it.
SprayIsFlagged ==
  \A ip \in IPs \ blind :
    /\ Targets(ip) >= TargetAccounts
    /\ \A r \in Requests : req[r].ip # ip
    => \A i \in FailuresFrom(ip, now - StuffingWindow) :
           \E e \in DOMAIN flags :
             flags[e].ip = ip /\ flags[e].time >= attempts[i].time - Cooldown

\* "a sustained spray describes itself in a handful of audit events instead of
\* one per failed attempt": from any event on, a cooldown has at most as many
\* events of the address as requests run at once, leaving out those whose
\* lookup failed, and as long as the event is among those that are scanned.
CooldownHolds ==
  \A e \in Scanned :
    Cardinality({f \in DOMAIN flags :
                   /\ f >= e
                   /\ flags[f].ip = flags[e].ip
                   /\ flags[f].time <= flags[e].time + Cooldown
                   /\ ~flags[f].unchecked}) <= Cardinality(Requests)

\* A login is judged by everything that was there when it arrived: it has each
\* signal that was due then, unless the read behind that signal failed or the
\* account was deleted meanwhile (gatherObservations, Evaluate).  The
\* login itself, the failures before it and those that are under way must not
\* make its address or its device look familiar or the account quiet.
DueIsSignalled == silent = {}

=============================================================================
