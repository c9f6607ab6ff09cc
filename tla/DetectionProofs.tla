-------------------------- MODULE DetectionProofs --------------------------
(***************************************************************************)
(* Proofs about module Detection, for any number of logins at once,        *)
(* accounts, addresses and rows, and any thresholds that are not 0.        *)
(*                                                                         *)
(* DueIsSignalled rests on what a request holds between its reads          *)
(* (DueInv), CooldownHolds on counting the requests that are about to add  *)
(* an event together with the events (CooldownInv), and SprayIsFlagged on  *)
(* the request that is still to judge an address (SprayInv).               *)
(***************************************************************************)
EXTENDS Detection, FiniteSetTheorems, WellFoundedInduction, TLAPS

\* A request under way has an address; rows and events lie in the past, and
\* deleting an account is all that separates a row from the account it named.
RowsInv ==
  /\ \A r \in Requests : req[r].pc # "idle" => req[r].ip \in IPs
  /\ \A i \in DOMAIN attempts :
       /\ attempts[i].time <= now
       /\ attempts[i].user \in {attempts[i].target, None}
  /\ \A e \in DOMAIN flags : flags[e].time <= now

DetectInv == TypeOK /\ RowsInv

\* Where a login that succeeded is, between its first read and its row.
Judging == {"user_failures", "ip_failures", "record_success"}

\* The failures that the two counts of request q would find.
UserFailuresOf(q) ==
  {i \in Failures(q.start - AnomalyWindow) : attempts[i].user = q.user}
IPFailuresOf(q) == FailuresFrom(q.ip, q.start - AnomalyWindow)

\* Each signal that is due at q is backed by what q read, or by what it is
\* about to read, or that read failed.
DueBacked(q) ==
  /\ q.due \subseteq {"new_ip", "new_device", "user_failure_velocity",
                      "ip_failure_velocity"}
  /\ "new_ip" \in q.due \ q.missed =>
       q.obs.history /\ q.ip \notin q.obs.knownIPs
  /\ "new_device" \in q.due \ q.missed =>
       q.obs.history /\ q.agent # None /\ q.agent \notin q.obs.knownAgents
  /\ "user_failure_velocity" \in q.due \ q.missed =>
       IF q.pc = "user_failures"
       THEN q.user \in users => Cardinality(UserFailuresOf(q)) >= UserFailureVelocity
       ELSE q.user \in users => q.obs.userFailures >= UserFailureVelocity
  /\ "ip_failure_velocity" \in q.due \ q.missed =>
       IF q.pc = "record_success"
       THEN q.obs.ipFailures >= IPFailureVelocity
       ELSE Cardinality(IPFailuresOf(q)) >= IPFailureVelocity

DueInv ==
  /\ silent = {}
  /\ \A r \in Requests : req[r].pc \in Judging => DueBacked(req[r])

\* The events that a cooldown from event e on counts, and the requests that
\* are about to add one.
CountedFrom(e) ==
  {f \in DOMAIN flags :
     /\ f >= e
     /\ flags[f].ip = flags[e].ip
     /\ flags[f].time <= flags[e].time + Cooldown
     /\ ~flags[f].unchecked}
AboutToFlag(ip) ==
  {r \in Requests : req[r].pc = "flag" /\ req[r].ip = ip /\ ~req[r].unchecked}

\* While the cooldown of e runs, only requests that looked before e was there
\* can add events.
CooldownInv ==
  \A e \in Scanned :
    Cardinality(CountedFrom(e))
      + (IF now <= flags[e].time + Cooldown
         THEN Cardinality(AboutToFlag(flags[e].ip)) ELSE 0)
      <= Cardinality(Requests)

\* A request that has yet to judge the rows of the address.
UnderJudgement(ip) ==
  \E r \in Requests :
    req[r].ip = ip /\ req[r].pc \in {"count", "cooldown", "flag"}

\* Every failure in the window has its event.
Covered(ip) ==
  \A i \in FailuresFrom(ip, now - StuffingWindow) :
    \E e \in DOMAIN flags :
      flags[e].ip = ip /\ flags[e].time >= attempts[i].time - Cooldown

SprayInv ==
  \A ip \in IPs \ blind :
    Targets(ip) >= TargetAccounts => UnderJudgement(ip) \/ Covered(ip)

\* The rows are finitely many, and so are the parts of them that are counted.
LEMMA RowsFinite ==
  ASSUME TypeOK
  PROVE  /\ Len(attempts) \in Nat /\ Positions = 1..Len(attempts)
         /\ \A S : S \subseteq Positions => IsFiniteSet(S) /\ Cardinality(S) \in Nat
<1>1. Len(attempts) \in Nat /\ Positions = 1..Len(attempts)
  BY DEF TypeOK, Positions
<1>2. IsFiniteSet(Positions)
  BY <1>1, FS_Interval
<1>3. QED
  BY <1>1, <1>2, FS_Subset, FS_CardinalityType

\* An attempt in the history is well-formed.
LEMMA RowType ==
  ASSUME TypeOK, NEW i \in Positions
  PROVE  attempts[i] \in Attempt
<1>1. i \in 1..Len(attempts) /\ attempts \in Seq(Attempt)
  BY RowsFinite DEF TypeOK
<1>2. QED
  BY <1>1

\* An event of the audit trail is well-formed.
LEMMA FlagType ==
  ASSUME TypeOK, NEW e \in DOMAIN flags
  PROVE  flags[e] \in Flag /\ e \in 1..Len(flags) /\ Len(flags) \in Nat
<1>1. flags \in Seq(Flag)
  BY DEF TypeOK
<1>2. QED
  BY <1>1

\* Request r goes on as q.
LEMMA MoveRequest ==
  ASSUME DetectInv, NEW r \in Requests, NEW q \in Request,
         req' = [req EXCEPT ![r] = q], q.pc # "idle" => q.ip \in IPs
  PROVE  /\ req' \in [Requests -> Request]
         /\ \A x \in Requests : req'[x].pc # "idle" => req'[x].ip \in IPs
<1>1. req'[r] = q /\ \A x \in Requests \ {r} : req'[x] = req[x]
  BY DEF DetectInv, TypeOK
<1>2. QED
  BY <1>1 DEF DetectInv, TypeOK, RowsInv

\* A finished request, and one that has read nothing, are well-formed.
LEMMA IdleType ==
  Idle \in Request /\ Idle.pc = "idle" /\ NoEvidence \in Observations
<1>1. NoEvidence \in Observations
  BY DEF NoEvidence, Observations
<1>2. 0 \in Time
  BY BoundsAssumption DEF Time
<1>3. "idle" \in PCs /\ None \in Target /\ None \in Agent
  BY DEF PCs, Target, Agent
<1>4. QED
  BY <1>1, <1>2, <1>3 DEF Idle, Request

\* What a request holds after a read: what it held, and the result or the fact
\* that it has none.
ReadInto(p, q, obs, signals, pc) ==
  /\ p.user = q.user /\ p.ip = q.ip /\ p.agent = q.agent /\ p.start = q.start
  /\ p.due = q.due /\ p.pc = pc /\ q.missed \subseteq p.missed
  /\ \/ p.obs = obs
     \/ signals \subseteq p.missed /\ p.obs = q.obs

\* The two ways a read ends.
LEMMA ReadEnds ==
  ASSUME DetectInv, NEW r \in Requests, NEW q \in Request, q.ip \in IPs,
         NEW obs \in Observations, NEW signals \in SUBSET AnomalySignal,
         NEW pc \in PCs, Read(r, q, obs, signals, pc)
  PROVE  /\ errors' \in 0..MaxErrors
         /\ \E p \in Request :
              /\ p.ip \in IPs
              /\ req' = [req EXCEPT ![r] = p]
              /\ ReadInto(p, q, obs, signals, pc)
<1>1. CASE /\ Answers
           /\ req' = [req EXCEPT ![r] = [q EXCEPT !.obs = obs, !.pc = pc]]
  <2>1. PICK p : p = [q EXCEPT !.obs = obs, !.pc = pc]
    OBVIOUS
  <2>2. p \in Request /\ p.ip \in IPs /\ ReadInto(p, q, obs, signals, pc)
    BY <2>1 DEF Request, ReadInto
  <2>3. QED
    BY <1>1, <2>1, <2>2 DEF Answers, DetectInv, TypeOK
<1>2. CASE /\ Fails
           /\ req' = [req EXCEPT ![r] = [q EXCEPT !.missed = @ \cup signals,
                                                 !.pc = pc]]
  <2>1. PICK p : p = [q EXCEPT !.missed = @ \cup signals, !.pc = pc]
    OBVIOUS
  <2>2. p \in Request /\ p.ip \in IPs /\ ReadInto(p, q, obs, signals, pc)
    BY <2>1 DEF Request, ReadInto
  <2>3. errors' \in 0..MaxErrors
    BY <1>2, BoundsAssumption DEF Fails, DetectInv, TypeOK
  <2>4. QED
    BY <1>2, <2>1, <2>2, <2>3
<1>3. QED
  BY <1>1, <1>2 DEF Read

\* What the reads of a login return is well-formed.
LEMMA HistoryType ==
  ASSUME DetectInv, NEW u,
         NEW obs, obs = [NoEvidence EXCEPT !.history = ListRecentSuccesses(u) # {},
                                           !.knownIPs = KnownIPs(u),
                                           !.knownAgents = KnownAgents(u)]
  PROVE  obs \in Observations
<1>1. \A i \in Positions : attempts[i].ip \in IPs /\ attempts[i].agent \in Agent
  BY RowType DEF DetectInv, Attempt
<1>2. ListRecentSuccesses(u) \subseteq Positions
  BY DEF ListRecentSuccesses, Successes
<1>3. KnownIPs(u) \in SUBSET IPs /\ KnownAgents(u) \in SUBSET Agents
  BY <1>1, <1>2 DEF KnownIPs, KnownAgents, Agent
<1>4. QED
  BY <1>3 DEF NoEvidence, Observations

\* RecordAttempt adds a well-formed row, or none.
LEMMA RecordEnds ==
  ASSUME DetectInv, NEW r \in Requests, req[r].pc # "idle",
         NEW success \in BOOLEAN, RecordLoginAttempt(r, success)
  PROVE  /\ errors' \in 0..MaxErrors
         /\ \/ attempts' = attempts
            \/ /\ Row(r, success) \in Attempt
               /\ attempts' = Append(attempts, Row(r, success))
<1>1. Row(r, success) \in Attempt
  BY DEF Row, Attempt, DetectInv, TypeOK, RowsInv, Request
<1>2. errors' \in 0..MaxErrors
  BY BoundsAssumption DEF RecordLoginAttempt, Answers, Fails, DetectInv, TypeOK
<1>3. QED
  BY <1>1, <1>2 DEF RecordLoginAttempt

\* A request on its way to the count.
LEMMA ToCountType ==
  ASSUME DetectInv, NEW r \in Requests, req[r].pc # "idle", ToCount(r)
  PROVE  \E q \in Request :
           /\ q.pc = "count" /\ q.ip = req[r].ip /\ q.ip \in IPs
           /\ req' = [req EXCEPT ![r] = q]
<1>1. PICK q : q = [Idle EXCEPT !.pc = "count", !.user = req[r].user, !.ip = req[r].ip]
  OBVIOUS
<1>2. /\ q \in Request /\ q.pc = "count" /\ q.ip = req[r].ip /\ q.ip \in IPs
  BY <1>1, IdleType DEF Request, PCs, DetectInv, TypeOK, RowsInv
<1>3. QED
  BY <1>1, <1>2 DEF ToCount

\* What holds of the rows, of the events, and of the addresses of requests.
RowsPast ==
  \A i \in DOMAIN attempts :
    attempts[i].time <= now /\ attempts[i].user \in {attempts[i].target, None}

FlagsPast == \A e \in DOMAIN flags : flags[e].time <= now

\* A new row is of now.
LEMMA RowAdded ==
  ASSUME DetectInv, NEW row \in Attempt, row.time = now, row.user = row.target,
         attempts' = Append(attempts, row), now' = now
  PROVE  attempts' \in Seq(Attempt) /\ RowsPast'
<1>1. PICK n \in Nat : n = Len(attempts)
  BY DEF DetectInv, TypeOK
<1>2. /\ attempts' \in Seq(Attempt)
      /\ DOMAIN attempts' = 1..(n + 1) /\ DOMAIN attempts = 1..n
      /\ attempts'[n + 1] = row /\ \A i \in 1..n : attempts'[i] = attempts[i]
  BY <1>1 DEF DetectInv, TypeOK
<1>3. ASSUME NEW i \in 1..(n + 1)
      PROVE  /\ attempts'[i].time <= now
             /\ attempts'[i].user \in {attempts'[i].target, None}
  <2>1. CASE i \in 1..n
    BY <1>2, <2>1 DEF DetectInv, RowsInv
  <2>2. CASE i = n + 1
    BY <1>2, <2>2 DEF DetectInv, TypeOK, Time, Attempt
  <2>3. i \in 1..n \/ i = n + 1
    BY <1>1
  <2>4. QED
    BY <2>1, <2>2, <2>3
<1>4. QED
  BY <1>2, <1>3 DEF RowsPast

\* A step that leaves rows, events and the clock alone.
LEMMA OnlyRequests ==
  ASSUME DetectInv, UNCHANGED <<users, attempts, flags, now>>,
         logins' \in 0..MaxLogins, errors' \in 0..MaxErrors,
         blind' \subseteq IPs, silent' \subseteq AnomalySignal,
         NEW r \in Requests, NEW q \in Request,
         req' = [req EXCEPT ![r] = q], q.pc # "idle" => q.ip \in IPs
  PROVE  DetectInv'
<1>1. /\ req' \in [Requests -> Request]
      /\ \A x \in Requests : req'[x].pc # "idle" => req'[x].ip \in IPs
  BY MoveRequest
<1>2. TypeOK'
  BY <1>1 DEF DetectInv, TypeOK
<1>3. RowsInv'
  BY <1>1 DEF DetectInv, RowsInv
<1>4. QED
  BY <1>2, <1>3 DEF DetectInv

\* A login's first read.
LEMMA LoginSucceedsInv ==
  ASSUME DetectInv, NEW r \in Requests, NEW u \in Users, NEW ip \in IPs,
         NEW agent \in Agent, LoginSucceeds(r, u, ip, agent)
  PROVE  DetectInv'
<1>1. PICK q, obs, signals, pc :
        /\ q = [Idle EXCEPT !.user = u, !.ip = ip, !.agent = agent, !.start = now,
                            !.due = Due(u, ip, agent)]
        /\ obs = [NoEvidence EXCEPT !.history = ListRecentSuccesses(u) # {},
                                    !.knownIPs = KnownIPs(u),
                                    !.knownAgents = KnownAgents(u)]
        /\ signals = {"new_ip", "new_device"} /\ pc = "user_failures"
  OBVIOUS
<1>2. q \in Request /\ q.ip \in IPs
  BY <1>1, IdleType DEF Request, Due, Target, DetectInv, TypeOK
<1>3. obs \in Observations
  BY <1>1, HistoryType
<1>4. signals \in SUBSET AnomalySignal /\ pc \in PCs
  BY <1>1 DEF AnomalySignal, PCs
<1>5. Read(r, q, obs, signals, pc)
  BY <1>1 DEF LoginSucceeds
<1>6. PICK p \in Request : p.ip \in IPs /\ req' = [req EXCEPT ![r] = p]
  BY <1>2, <1>3, <1>4, <1>5, ReadEnds
<1>7. errors' \in 0..MaxErrors
  BY <1>2, <1>3, <1>4, <1>5, ReadEnds
<1>8. logins' \in 0..MaxLogins
  BY BoundsAssumption DEF LoginSucceeds, DetectInv, TypeOK
<1>9. QED
  BY <1>6, <1>7, <1>8, OnlyRequests DEF LoginSucceeds, DetectInv, TypeOK

\* Its two counts.
LEMMA CountsInv ==
  ASSUME DetectInv, NEW r \in Requests, UserFailures(r) \/ IPFailures(r)
  PROVE  DetectInv'
<1>1. PICK q \in Request : q = req[r] /\ q.pc # "idle" /\ q.ip \in IPs
  BY DEF UserFailures, IPFailures, At, DetectInv, TypeOK, RowsInv
<1>2. CountFailuresForUser(r) \in Nat /\ CountFailuresForIP(r) \in Nat
  BY RowsFinite DEF CountFailuresForUser, CountFailuresForIP, FailuresFrom, Failures,
                    DetectInv
<1>3. PICK obs \in Observations, signals \in SUBSET AnomalySignal, pc \in PCs :
        Read(r, q, obs, signals, pc)
  <2>1. CASE UserFailures(r)
    <3>1. PICK obs : obs = [req[r].obs EXCEPT !.userFailures = CountFailuresForUser(r)]
      OBVIOUS
    <3>2. obs \in Observations
      BY <1>1, <1>2, <3>1 DEF Observations, Request
    <3>3. {"user_failure_velocity"} \in SUBSET AnomalySignal /\ "ip_failures" \in PCs
      BY DEF AnomalySignal, PCs
    <3>4. Read(r, q, obs, {"user_failure_velocity"}, "ip_failures")
      BY <1>1, <2>1, <3>1 DEF UserFailures
    <3>5. QED
      BY <3>2, <3>3, <3>4
  <2>2. CASE IPFailures(r)
    <3>1. PICK obs : obs = [req[r].obs EXCEPT !.ipFailures = CountFailuresForIP(r)]
      OBVIOUS
    <3>2. obs \in Observations
      BY <1>1, <1>2, <3>1 DEF Observations, Request
    <3>3. {"ip_failure_velocity"} \in SUBSET AnomalySignal /\ "record_success" \in PCs
      BY DEF AnomalySignal, PCs
    <3>4. Read(r, q, obs, {"ip_failure_velocity"}, "record_success")
      BY <1>1, <2>2, <3>1 DEF IPFailures
    <3>5. QED
      BY <3>2, <3>3, <3>4
  <2>3. QED
    BY <2>1, <2>2
<1>4. PICK p \in Request : p.ip \in IPs /\ req' = [req EXCEPT ![r] = p]
  BY <1>1, <1>3, ReadEnds
<1>5. errors' \in 0..MaxErrors
  BY <1>1, <1>3, ReadEnds
<1>6. QED
  BY <1>4, <1>5, OnlyRequests DEF UserFailures, IPFailures, DetectInv, TypeOK

\* The attempt's row.
LEMMA RecordsInv ==
  ASSUME DetectInv, NEW r \in Requests, RecordSuccess(r) \/ RecordFailure(r)
  PROVE  DetectInv'
<1>1. /\ req[r].pc # "idle" /\ ToCount(r)
      /\ UNCHANGED <<users, flags, now, blind, logins>>
  BY DEF RecordSuccess, RecordFailure, At
<1>2. PICK success \in BOOLEAN : RecordLoginAttempt(r, success)
  BY DEF RecordSuccess, RecordFailure
<1>3. silent' \subseteq AnomalySignal
  <2>1. req[r].due \subseteq AnomalySignal /\ silent \subseteq AnomalySignal
    BY DEF DetectInv, TypeOK, Request
  <2>2. QED
    BY <2>1 DEF RecordSuccess, RecordFailure
<1>4. errors' \in 0..MaxErrors
  BY <1>1, <1>2, RecordEnds
<1>5. PICK q \in Request : q.ip \in IPs /\ req' = [req EXCEPT ![r] = q]
  BY <1>1, ToCountType
<1>6. CASE attempts' = attempts
  <2>1. logins' \in 0..MaxLogins /\ blind' \subseteq IPs
    BY <1>1 DEF DetectInv, TypeOK
  <2>2. QED
    BY <1>1, <1>3, <1>4, <1>5, <1>6, <2>1, OnlyRequests
<1>7. CASE attempts' # attempts
  <2>1. PICK row \in Attempt : row = Row(r, success) /\ attempts' = Append(attempts, row)
    BY <1>1, <1>2, <1>7, RecordEnds
  <2>2. row.time = now /\ row.user = row.target
    BY <2>1 DEF Row
  <2>3. attempts' \in Seq(Attempt) /\ RowsPast'
    BY <1>1, <2>1, <2>2, RowAdded
  <2>4. /\ req' \in [Requests -> Request]
        /\ \A x \in Requests : req'[x].pc # "idle" => req'[x].ip \in IPs
    BY <1>5, MoveRequest
  <2>5. TypeOK'
    BY <1>1, <1>3, <1>4, <2>3, <2>4 DEF DetectInv, TypeOK
  <2>6. RowsInv'
    BY <1>1, <2>3, <2>4 DEF DetectInv, RowsInv, RowsPast
  <2>7. QED
    BY <2>5, <2>6 DEF DetectInv
<1>8. QED
  BY <1>6, <1>7

\* The judgement of the address.
LEMMA StuffingInv ==
  ASSUME DetectInv, NEW r \in Requests,
         CountTargets(r) \/ CooldownLookup(r) \/ DetectionError(r)
  PROVE  DetectInv'
<1>1. PICK q \in Request : q = req[r] /\ q.pc # "idle" /\ q.ip \in IPs
  BY DEF CountTargets, CooldownLookup, DetectionError, At, DetectInv, TypeOK, RowsInv
<1>2. PICK p \in Request : /\ p.pc # "idle" => p.ip \in IPs
                           /\ req' = [req EXCEPT ![r] = p]
  <2>1. CASE Return(r)
    BY <2>1, IdleType DEF Return
  <2>2. CASE req' = [req EXCEPT ![r].pc = "cooldown"]
    <3>1. [q EXCEPT !.pc = "cooldown"] \in Request
      BY DEF Request, PCs
    <3>2. QED
      BY <1>1, <2>2, <3>1 DEF Request
  <2>3. CASE req' = [req EXCEPT ![r].pc = "flag"]
    <3>1. [q EXCEPT !.pc = "flag"] \in Request
      BY DEF Request, PCs
    <3>2. QED
      BY <1>1, <2>3, <3>1 DEF Request
  <2>4. CASE req' = [req EXCEPT ![r].pc = "flag", ![r].unchecked = TRUE]
    <3>1. [q EXCEPT !.pc = "flag", !.unchecked = TRUE] \in Request
      BY DEF Request, PCs
    <3>2. req' = [req EXCEPT ![r] = [q EXCEPT !.pc = "flag", !.unchecked = TRUE]]
      BY <1>1, <2>4 DEF DetectInv, TypeOK
    <3>3. QED
      BY <1>1, <3>1, <3>2 DEF Request
  <2>5. QED
    BY <2>1, <2>2, <2>3, <2>4 DEF CountTargets, CooldownLookup, DetectionError
<1>3. errors' \in 0..MaxErrors
  BY BoundsAssumption
  DEF CountTargets, CooldownLookup, DetectionError, Answers, Fails, DetectInv, TypeOK
<1>4. blind' \subseteq IPs
  BY <1>1 DEF CountTargets, CooldownLookup, DetectionError, DetectInv, TypeOK
<1>5. /\ UNCHANGED <<users, attempts, flags, now>>
      /\ logins' \in 0..MaxLogins /\ silent' \subseteq AnomalySignal
  BY DEF CountTargets, CooldownLookup, DetectionError, DetectInv, TypeOK
<1>6. QED
  BY <1>2, <1>3, <1>4, <1>5, OnlyRequests

\* The events after request r recorded f, the next after n of them.
Recorded(r, n, f) ==
  /\ n = Len(flags) /\ n \in Nat /\ DOMAIN flags = 1..n
  /\ f = [ip |-> req[r].ip, time |-> now, unchecked |-> req[r].unchecked]
  /\ f \in Flag /\ flags' \in Seq(Flag)
  /\ Len(flags') = n + 1 /\ DOMAIN flags' = 1..(n + 1)
  /\ \A e \in 1..n : flags'[e] = flags[e] /\ flags[e] \in Flag
  /\ flags'[n + 1] = f

\* A new event is of now.
LEMMA FlagAdded ==
  ASSUME DetectInv, NEW r \in Requests, RecordFlag(r)
  PROVE  \E n, f : Recorded(r, n, f)
<1>1. PICK n, f :
        /\ n = Len(flags)
        /\ f = [ip |-> req[r].ip, time |-> now, unchecked |-> req[r].unchecked]
  OBVIOUS
<1>2. f \in Flag
  BY <1>1 DEF RecordFlag, At, Flag, DetectInv, TypeOK, RowsInv, Request
<1>3. flags' = Append(flags, f) /\ flags \in Seq(Flag)
  BY <1>1 DEF RecordFlag, DetectInv, TypeOK
<1>4. Recorded(r, n, f)
  BY <1>1, <1>2, <1>3 DEF Recorded
<1>5. QED
  BY <1>4

\* So the events and the clock stay well-formed.
LEMMA RecordFlagInv ==
  ASSUME DetectInv, NEW r \in Requests, RecordFlag(r)
  PROVE  DetectInv'
<1>1. /\ UNCHANGED <<users, attempts, now, blind, logins, errors, silent>>
      /\ req' = [req EXCEPT ![r] = Idle]
  BY DEF RecordFlag, Return
<1>2. /\ req' \in [Requests -> Request]
      /\ \A x \in Requests : req'[x].pc # "idle" => req'[x].ip \in IPs
  BY <1>1, IdleType, MoveRequest
<1>3. PICK n, f : Recorded(r, n, f)
  BY FlagAdded
<1>4. /\ n \in Nat /\ DOMAIN flags = 1..n
      /\ flags' \in Seq(Flag) /\ DOMAIN flags' = 1..(n + 1)
      /\ \A e \in 1..n : flags'[e] = flags[e]
      /\ flags'[n + 1] = f /\ f.time = now
  BY <1>3 DEF Recorded
<1>5. ASSUME NEW e \in 1..(n + 1) PROVE flags'[e].time <= now
  <2>1. CASE e \in 1..n
    BY <1>4, <2>1 DEF DetectInv, RowsInv
  <2>2. CASE e = n + 1
    BY <1>4, <2>2 DEF DetectInv, TypeOK, Time
  <2>3. e \in 1..n \/ e = n + 1
    BY <1>4
  <2>4. QED
    BY <2>1, <2>2, <2>3
<1>6. FlagsPast'
  BY <1>1, <1>4, <1>5 DEF FlagsPast
<1>7. TypeOK'
  BY <1>1, <1>2, <1>4 DEF DetectInv, TypeOK
<1>8. RowsInv'
  BY <1>1, <1>2, <1>6 DEF DetectInv, RowsInv, FlagsPast
<1>9. QED
  BY <1>7, <1>8 DEF DetectInv

\* What Delete does to the rows.
LEMMA RowsOfDeleted ==
  ASSUME DetectInv, NEW u \in Users, DeleteUser(u)
  PROVE  /\ attempts' \in Seq(Attempt) /\ Positions' = Positions
         /\ \A i \in Positions :
              /\ attempts'[i].target = attempts[i].target
              /\ attempts'[i].ip = attempts[i].ip
              /\ attempts'[i].time = attempts[i].time
              /\ attempts'[i].success = attempts[i].success
              /\ attempts'[i].user = IF attempts[i].user = u THEN None
                                     ELSE attempts[i].user
<1>1. PICK n \in Nat : n = Len(attempts) /\ Positions = 1..n
  BY RowsFinite DEF DetectInv
<1>2. attempts' = [i \in 1..n |->
                    IF attempts[i].user = u THEN [attempts[i] EXCEPT !.user = None]
                    ELSE attempts[i]]
  BY <1>1 DEF DeleteUser
<1>3. ASSUME NEW i \in 1..n
      PROVE  /\ attempts'[i] \in Attempt
             /\ attempts'[i].target = attempts[i].target
             /\ attempts'[i].ip = attempts[i].ip
             /\ attempts'[i].time = attempts[i].time
             /\ attempts'[i].success = attempts[i].success
             /\ attempts'[i].user = IF attempts[i].user = u THEN None
                                    ELSE attempts[i].user
  <2>1. attempts[i] \in Attempt
    BY <1>1, RowType DEF DetectInv
  <2>2. attempts'[i] = IF attempts[i].user = u THEN [attempts[i] EXCEPT !.user = None]
                       ELSE attempts[i]
    BY <1>2
  <2>3. QED
    BY <2>1, <2>2 DEF Attempt, Target
<1>4. attempts' \in [1..n -> Attempt]
  BY <1>2, <1>3
<1>5. QED
  BY <1>1, <1>3, <1>4 DEF Positions

\* Deleting an account clears its name in rows that lie in the past.
LEMMA DeleteUserInv ==
  ASSUME DetectInv, NEW u \in Users, DeleteUser(u)
  PROVE  DetectInv'
<1>1. RowsPast'
  BY RowsOfDeleted DEF RowsPast, Positions, DeleteUser, DetectInv, RowsInv
<1>2. TypeOK'
  BY RowsOfDeleted DEF DeleteUser, DetectInv, TypeOK
<1>3. QED
  BY <1>1, <1>2 DEF DeleteUser, DetectInv, RowsInv, RowsPast

\* The first state satisfies the invariant.
LEMMA DetectInitInv == Init => DetectInv
<1> SUFFICES ASSUME Init PROVE DetectInv
  OBVIOUS
<1>1. TypeOK
  BY IdleType, BoundsAssumption DEF Init, TypeOK, Time
<1>2. RowsInv
  BY IdleType DEF Init, RowsInv
<1>3. QED
  BY <1>1, <1>2 DEF DetectInv

\* Every step keeps the invariant: a request's, a deletion and the clock's.
LEMMA DetectNextInv == DetectInv /\ [Next]_vars => DetectInv'
<1> SUFFICES ASSUME DetectInv, [Next]_vars PROVE DetectInv'
  OBVIOUS
<1>1. CASE \E r \in Requests, u \in Users, ip \in IPs, agent \in Agent :
             LoginSucceeds(r, u, ip, agent)
  BY <1>1, LoginSucceedsInv
<1>2. CASE \E r \in Requests, u \in Target, ip \in IPs : LoginFails(r, u, ip)
  <2>1. PICK r \in Requests, u \in Target, ip \in IPs : LoginFails(r, u, ip)
    BY <1>2
  <2>2. PICK q : q = [Idle EXCEPT !.pc = "record_failure", !.user = u, !.ip = ip]
    OBVIOUS
  <2>3. q \in Request /\ q.ip \in IPs
    BY <2>2, IdleType DEF Request, PCs
  <2>4. /\ UNCHANGED <<users, attempts, flags, now>> /\ req' = [req EXCEPT ![r] = q]
        /\ errors' \in 0..MaxErrors /\ blind' \subseteq IPs
        /\ silent' \subseteq AnomalySignal
    BY <2>1, <2>2 DEF LoginFails, DetectInv, TypeOK
  <2>5. logins' \in 0..MaxLogins
    BY <2>1, BoundsAssumption DEF LoginFails, DetectInv, TypeOK
  <2>6. QED
    BY <2>3, <2>4, <2>5, OnlyRequests
<1>3. CASE \E r \in Requests : Continue(r)
  BY <1>3, CountsInv, RecordsInv, StuffingInv, RecordFlagInv DEF Continue
<1>4. CASE \E u \in Users : DeleteUser(u)
  BY <1>4, DeleteUserInv
<1>5. CASE Tick
  <2>1. now' = now + 1 /\ now' \in Time
    BY <1>5, BoundsAssumption DEF Tick, DetectInv, TypeOK, Time
  <2>2. TypeOK'
    BY <1>5, <2>1 DEF Tick, DetectInv, TypeOK
  <2>3. ASSUME NEW t, t <= now, t \in Time PROVE t <= now'
    BY <2>1, <2>3 DEF DetectInv, TypeOK, Time
  <2>4. \A i \in DOMAIN attempts : attempts[i].time \in Time
    BY RowType DEF DetectInv, Positions, Attempt
  <2>5. \A e \in DOMAIN flags : flags[e].time \in Time
    BY FlagType DEF DetectInv, Flag
  <2>6. RowsInv'
    BY <1>5, <2>3, <2>4, <2>5 DEF Tick, DetectInv, RowsInv
  <2>7. QED
    BY <2>2, <2>6 DEF DetectInv
<1>6. CASE UNCHANGED vars
  BY <1>6 DEF vars, DetectInv, TypeOK, RowsInv
<1>7. QED
  BY <1>1, <1>2, <1>3, <1>4, <1>5, <1>6 DEF Next

\* Every reachable state satisfies the invariant.
LEMMA AlwaysDetectInv == Spec => []DetectInv
  BY DetectInitInv, DetectNextInv, PTL DEF Spec

\* Every reachable state is well-formed.
THEOREM TypeCorrect == Spec => []TypeOK
<1>1. DetectInv => TypeOK
  BY DEF DetectInv
<1>2. QED
  BY <1>1, AlwaysDetectInv, PTL

\* A request that comes to be about to record an event, and not because its
\* lookup failed, has just found none of its address.
ComesToFlag(x) ==
  /\ req'[x].ip = req[x].ip
  /\ \/ req[x].pc = "flag" /\ ~req[x].unchecked
     \/ ~RecentlyFlagged(req[x].ip) /\ now' = now

\* Request r goes on at pc.
GoesTo(r, pc) == \E p : req' = [req EXCEPT ![r] = p] /\ p.pc = pc

\* A read moves its request on, whatever its answer.
LEMMA ReadMoves ==
  ASSUME NEW r, NEW q \in Request, NEW obs, NEW signals, NEW pc,
         Read(r, q, obs, signals, pc)
  PROVE  GoesTo(r, pc)
<1>1. PICK p1, p2 : /\ p1 = [q EXCEPT !.obs = obs, !.pc = pc]
                    /\ p2 = [q EXCEPT !.missed = @ \cup signals, !.pc = pc]
  OBVIOUS
<1>2. p1.pc = pc /\ p2.pc = pc
  BY <1>1 DEF Request
<1>3. req' = [req EXCEPT ![r] = p1] \/ req' = [req EXCEPT ![r] = p2]
  BY <1>1 DEF Read
<1>4. QED
  BY <1>2, <1>3 DEF GoesTo

\* Without RecordFlag there is no new event, and a request is about to add one
\* only if its lookup of the cooldown has just found none.
LEMMA FlagStep ==
  ASSUME DetectInv, [Next]_vars, \A r \in Requests : ~RecordFlag(r)
  PROVE  /\ flags' = flags /\ now \in Nat /\ now' \in Nat /\ now <= now'
         /\ \A x \in Requests :
              req'[x].pc = "flag" /\ ~req'[x].unchecked => ComesToFlag(x)
<1>1. now \in Nat /\ req \in [Requests -> Request]
  BY BoundsAssumption DEF DetectInv, TypeOK, Time
<1>2. CASE \E r \in Requests, u \in Users, ip \in IPs, agent \in Agent :
             LoginSucceeds(r, u, ip, agent)
  <2>1. PICK r \in Requests, u \in Users, ip \in IPs, agent \in Agent :
          LoginSucceeds(r, u, ip, agent)
    BY <1>2
  <2>2. PICK q : q = [Idle EXCEPT !.user = u, !.ip = ip, !.agent = agent,
                                  !.start = now, !.due = Due(u, ip, agent)]
    OBVIOUS
  <2>3. q \in Request
    BY <2>2, IdleType DEF Request, Due, Target, DetectInv, TypeOK
  <2>4. \E p : req' = [req EXCEPT ![r] = p] /\ p.pc = "user_failures"
    <3>1. PICK obs, signals, pc :
            pc = "user_failures" /\ Read(r, q, obs, signals, pc)
      BY <2>1, <2>2 DEF LoginSucceeds
    <3>2. GoesTo(r, pc)
      BY <2>3, <3>1, ReadMoves
    <3>3. QED
      BY <3>1, <3>2 DEF GoesTo
  <2>5. flags' = flags /\ now' = now
    BY <2>1 DEF LoginSucceeds
  <2>6. QED
    BY <1>1, <2>4, <2>5 DEF ComesToFlag
<1>3. CASE \E r \in Requests, u \in Target, ip \in IPs : LoginFails(r, u, ip)
  <2>1. PICK r \in Requests, u \in Target, ip \in IPs : LoginFails(r, u, ip)
    BY <1>3
  <2>2. \E p : req' = [req EXCEPT ![r] = p] /\ p.pc = "record_failure"
    <3>1. PICK p : p = [Idle EXCEPT !.pc = "record_failure", !.user = u, !.ip = ip]
      OBVIOUS
    <3>2. req' = [req EXCEPT ![r] = p] /\ p.pc = "record_failure"
      BY <2>1, <3>1, IdleType DEF LoginFails, Request
    <3>3. QED
      BY <3>2
  <2>3. QED
    BY <1>1, <2>1, <2>2 DEF LoginFails, ComesToFlag
<1>4. CASE \E r \in Requests : Continue(r)
  <2>1. PICK r \in Requests : Continue(r)
    BY <1>4
  <2>2. flags' = flags /\ now' = now
    BY <2>1 DEF Continue, UserFailures, IPFailures, RecordSuccess, RecordFailure,
                CountTargets, CooldownLookup, DetectionError
  <2>3. PICK q \in Request : q = req[r]
    BY <1>1
  <2>4. PICK p : /\ req' = [req EXCEPT ![r] = p]
                 /\ \/ p.pc # "flag" \/ p.unchecked
                    \/ ~RecentlyFlagged(q.ip) /\ p.ip = q.ip
    <3>1. CASE UserFailures(r) \/ IPFailures(r)
      <4>1. \E p : req' = [req EXCEPT ![r] = p] /\ p.pc # "flag"
        <5>1. PICK obs, signals, pc :
                pc \in {"ip_failures", "record_success"} /\ Read(r, q, obs, signals, pc)
          BY <2>3, <3>1 DEF UserFailures, IPFailures
        <5>2. GoesTo(r, pc)
          BY <5>1, ReadMoves
        <5>3. QED
          BY <5>1, <5>2 DEF GoesTo
      <4>2. QED
        BY <4>1
    <3>2. CASE RecordSuccess(r) \/ RecordFailure(r)
      <4>1. \E p : req' = [req EXCEPT ![r] = p] /\ p.pc = "count"
        <5>1. ToCount(r) /\ req[r].pc # "idle"
          BY <3>2 DEF RecordSuccess, RecordFailure, At
        <5>2. PICK p : req' = [req EXCEPT ![r] = p] /\ p.pc = "count"
          BY <5>1, ToCountType
        <5>3. QED
          BY <5>2
      <4>2. QED
        BY <4>1
    <3>3. CASE Return(r)
      BY <3>3, IdleType DEF Return
    <3>4. CASE CountTargets(r) /\ ~Return(r)
      <4>1. req' = [req EXCEPT ![r] = [q EXCEPT !.pc = "cooldown"]]
        BY <1>1, <2>3, <3>4 DEF CountTargets
      <4>2. [q EXCEPT !.pc = "cooldown"].pc = "cooldown"
        BY DEF Request
      <4>3. PICK p : p = [q EXCEPT !.pc = "cooldown"]
        OBVIOUS
      <4>4. QED
        BY <4>1, <4>2, <4>3
    <3>5. CASE CooldownLookup(r) /\ ~Return(r)
      <4>1. CASE ~RecentlyFlagged(req[r].ip) /\ req' = [req EXCEPT ![r].pc = "flag"]
        <5>1. req' = [req EXCEPT ![r] = [q EXCEPT !.pc = "flag"]]
          BY <1>1, <2>3, <4>1
        <5>2. [q EXCEPT !.pc = "flag"].ip = q.ip
          BY DEF Request
        <5>3. QED
          BY <2>3, <4>1, <5>1, <5>2
      <4>2. CASE req' = [req EXCEPT ![r].pc = "flag", ![r].unchecked = TRUE]
        <5>1. req' = [req EXCEPT ![r] = [q EXCEPT !.pc = "flag", !.unchecked = TRUE]]
          BY <1>1, <2>3, <4>2
        <5>2. [q EXCEPT !.pc = "flag", !.unchecked = TRUE].unchecked
          BY DEF Request
        <5>3. QED
          BY <5>1, <5>2
      <4>3. QED
        BY <3>5, <4>1, <4>2 DEF CooldownLookup
    <3>6. QED
      BY <2>1, <3>1, <3>2, <3>3, <3>4, <3>5 DEF Continue, DetectionError
  <2>5. ASSUME NEW x \in Requests, req'[x].pc = "flag", ~req'[x].unchecked
        PROVE  ComesToFlag(x)
    <3>1. CASE x = r
      BY <1>1, <2>2, <2>3, <2>4, <2>5, <3>1 DEF ComesToFlag
    <3>2. CASE x # r
      BY <1>1, <2>4, <2>5, <3>2 DEF ComesToFlag
    <3>3. QED
      BY <3>1, <3>2
  <2>6. QED
    BY <1>1, <2>2, <2>5
<1>5. CASE \E u \in Users : DeleteUser(u)
  BY <1>1, <1>5 DEF DeleteUser, ComesToFlag
<1>6. CASE Tick
  BY <1>1, <1>6 DEF Tick, ComesToFlag
<1>7. CASE UNCHANGED vars
  BY <1>1, <1>7 DEF vars, ComesToFlag
<1>8. QED
  BY <1>2, <1>3, <1>4, <1>5, <1>6, <1>7 DEF Next

\* The events, and the requests about to add one, are finitely many.
LEMMA FlagsFinite ==
  ASSUME DetectInv, IsFiniteSet(Requests)
  PROVE  /\ Len(flags) \in Nat /\ DOMAIN flags = 1..Len(flags)
         /\ \A e : IsFiniteSet(CountedFrom(e)) /\ Cardinality(CountedFrom(e)) \in Nat
         /\ \A ip : IsFiniteSet(AboutToFlag(ip)) /\ Cardinality(AboutToFlag(ip)) \in Nat
<1>1. Len(flags) \in Nat /\ DOMAIN flags = 1..Len(flags)
  BY DEF DetectInv, TypeOK
<1>2. IsFiniteSet(DOMAIN flags)
  BY <1>1, FS_Interval
<1>3. \A e : CountedFrom(e) \subseteq DOMAIN flags
  BY DEF CountedFrom
<1>4. \A ip : AboutToFlag(ip) \subseteq Requests
  BY DEF AboutToFlag
<1>5. QED
  BY <1>1, <1>2, <1>3, <1>4, FS_Subset, FS_CardinalityType

\* A step that records no event keeps the bound.
LEMMA CooldownKept ==
  ASSUME DetectInv, CooldownInv, IsFiniteSet(Requests), [Next]_vars,
         \A r \in Requests : ~RecordFlag(r)
  PROVE  CooldownInv'
<1>1. /\ flags' = flags /\ now \in Nat /\ now' \in Nat /\ now <= now'
      /\ \A x \in Requests :
           req'[x].pc = "flag" /\ ~req'[x].unchecked => ComesToFlag(x)
  BY FlagStep
<1>2. SUFFICES ASSUME NEW e \in Scanned
               PROVE  Cardinality(CountedFrom(e)')
                        + (IF now' <= flags[e].time + Cooldown
                           THEN Cardinality(AboutToFlag(flags[e].ip)') ELSE 0)
                        <= Cardinality(Requests)
  BY <1>1 DEF CooldownInv, Scanned, CountedFrom, AboutToFlag
<1>3. PICK ip, t, n, a, b : /\ ip = flags[e].ip /\ t = flags[e].time
                            /\ n = Cardinality(CountedFrom(e))
                            /\ a = AboutToFlag(ip) /\ b = AboutToFlag(ip)'
  OBVIOUS
<1>4. CountedFrom(e)' = CountedFrom(e)
  BY <1>1 DEF CountedFrom
<1>5. /\ n \in Nat /\ IsFiniteSet(a) /\ Cardinality(a) \in Nat /\ t \in Nat
      /\ Cardinality(Requests) \in Nat /\ Cooldown \in Nat
  <2>1. t \in Nat
    BY <1>3, FlagType, BoundsAssumption DEF Scanned, DetectInv, Flag, Time
  <2>2. QED
    BY <1>3, <2>1, FlagsFinite, FS_CardinalityType, ThresholdsAssumption
<1>6. n + (IF now <= t + Cooldown THEN Cardinality(a) ELSE 0) <= Cardinality(Requests)
  BY <1>3 DEF CooldownInv
<1>7. CASE now' <= t + Cooldown
  <2>1. now <= t + Cooldown
    BY <1>1, <1>5, <1>7
  <2>2. b \subseteq a
    <3> SUFFICES ASSUME NEW x \in b PROVE x \in a
      OBVIOUS
    <3>1. x \in Requests /\ req'[x].ip = ip /\ ComesToFlag(x)
      BY <1>1, <1>3 DEF AboutToFlag
    <3>2. req[x].ip = ip
      BY <3>1 DEF ComesToFlag
    <3>3. RecentlyFlagged(ip)
      BY <1>1, <1>3, <1>5, <2>1 DEF RecentlyFlagged
    <3>4. QED
      BY <1>3, <3>1, <3>2, <3>3 DEF ComesToFlag, AboutToFlag
  <2>3. IsFiniteSet(b) /\ Cardinality(b) <= Cardinality(a) /\ Cardinality(b) \in Nat
    BY <1>5, <2>2, FS_Subset, FS_CardinalityType
  <2>4. n + Cardinality(b) <= Cardinality(Requests)
    BY <1>5, <1>6, <2>1, <2>3
  <2>5. QED
    BY <1>1, <1>3, <1>4, <1>7, <2>4 DEF AboutToFlag
<1>8. CASE ~(now' <= t + Cooldown)
  <2>1. n <= Cardinality(Requests)
    BY <1>5, <1>6
  <2>2. n + 0 <= Cardinality(Requests)
    BY <1>5, <2>1
  <2>3. QED
    BY <1>3, <1>4, <1>8, <2>2
<1>9. QED
  BY <1>7, <1>8

\* A new event takes the place of the request that was about to record it.
LEMMA CooldownAdded ==
  ASSUME DetectInv, CooldownInv, IsFiniteSet(Requests),
         NEW r \in Requests, RecordFlag(r)
  PROVE  CooldownInv'
<1>1. PICK n, f : Recorded(r, n, f)
  BY FlagAdded
<1>2. /\ n = Len(flags) /\ n \in Nat /\ DOMAIN flags = 1..n
      /\ f.ip = req[r].ip /\ f.time = now /\ f.unchecked = req[r].unchecked
      /\ f \in Flag /\ flags' \in Seq(Flag)
      /\ Len(flags') = n + 1 /\ DOMAIN flags' = 1..(n + 1)
      /\ \A e \in 1..n : flags'[e] = flags[e] /\ flags[e] \in Flag
      /\ flags'[n + 1] = f
  BY <1>1 DEF Recorded
<1>3. /\ now' = now /\ now \in Nat /\ req[r].pc = "flag"
      /\ req'[r].pc = "idle" /\ \A x \in Requests \ {r} : req'[x] = req[x]
  BY IdleType, BoundsAssumption DEF RecordFlag, Return, At, DetectInv, TypeOK, Time
<1>4. \A x \in Requests :
        req'[x].pc = "flag" => x # r /\ req'[x] = req[x]
  BY <1>3
<1>5. /\ Cardinality(Requests) \in Nat /\ Cooldown \in Nat /\ ScanLimit \in Nat
      /\ Cardinality(Requests \ {r}) = Cardinality(Requests) - 1
      /\ IsFiniteSet(Requests \ {r})
  BY FS_CardinalityType, FS_RemoveElement, ThresholdsAssumption
<1>6. PICK g : g = flags'
  OBVIOUS
<1>7. \A e \in 1..(n + 1) : g[e] \in Flag
  BY <1>2, <1>6
<1>8. ASSUME NEW e \in Scanned' PROVE e \in 1..(n + 1) /\ e > n + 1 - ScanLimit
  <2>1. e \in DOMAIN flags' /\ e > Len(flags') - ScanLimit
    BY DEF Scanned
  <2>2. QED
    BY <1>2, <1>5, <2>1
<1>9. SUFFICES ASSUME NEW e \in Scanned'
                PROVE  Cardinality(CountedFrom(e)')
                         + (IF now <= g[e].time + Cooldown
                            THEN Cardinality(AboutToFlag(g[e].ip)') ELSE 0)
                         <= Cardinality(Requests)
  BY <1>2, <1>3, <1>6 DEF CooldownInv, CountedFrom, AboutToFlag
<1>10. e \in 1..(n + 1) /\ e > n + 1 - ScanLimit
  BY <1>8
<1>11. PICK counted, about :
         /\ counted = CountedFrom(e)'
         /\ about = AboutToFlag(g[e].ip)'
  OBVIOUS
<1>12. counted = {x \in 1..(n + 1) :
                    /\ x >= e
                    /\ g[x].ip = g[e].ip
                    /\ g[x].time <= g[e].time + Cooldown
                    /\ ~g[x].unchecked}
  BY <1>2, <1>6, <1>11 DEF CountedFrom
<1>13. about = {x \in Requests :
                  /\ req'[x].pc = "flag"
                  /\ req'[x].ip = g[e].ip
                  /\ ~req'[x].unchecked}
  BY <1>11 DEF AboutToFlag
<1>14. SUFFICES Cardinality(counted)
                  + (IF now <= g[e].time + Cooldown
                     THEN Cardinality(about) ELSE 0)
                  <= Cardinality(Requests)
  BY <1>11
<1>15. PICK ip, t : ip = g[e].ip /\ t = g[e].time
  OBVIOUS
<1>16. about \subseteq AboutToFlag(ip) \ {r} /\ about \subseteq Requests \ {r}
  BY <1>4, <1>10, <1>12, <1>13, <1>15 DEF AboutToFlag
<1>17. IsFiniteSet(about) /\ Cardinality(about) \in Nat
       /\ Cardinality(about) <= Cardinality(Requests) - 1
  BY <1>5, <1>16, FS_Subset, FS_CardinalityType
<1>18. t \in Nat
  <2>1. g[e].time \in 0..MaxTime
    BY <1>7, <1>10 DEF Flag, Time
  <2>2. QED
    BY <1>15, <2>1, BoundsAssumption
<1>19. CASE e = n + 1
  <2>1. counted \subseteq {n + 1}
    BY <1>2, <1>10, <1>12, <1>13, <1>19
  <2>2. IsFiniteSet({n + 1}) /\ Cardinality({n + 1}) = 1
    BY FS_Singleton
  <2>3. Cardinality(counted) \in Nat /\ Cardinality(counted) <= 1
    BY <2>1, <2>2, FS_Subset, FS_CardinalityType
  <2>4. QED
    BY <1>5, <1>17, <2>3
<1>20. CASE e # n + 1
  <2>1. e \in 1..n /\ e \in Scanned
    BY <1>1, <1>2, <1>5, <1>10, <1>12, <1>13, <1>20 DEF Scanned
  <2>2. g[e] = flags[e] /\ \A x \in 1..n : g[x] = flags[x]
    BY <1>2, <1>6, <2>1
  <2>3. PICK old, wait : old = CountedFrom(e) /\ wait = AboutToFlag(ip)
    OBVIOUS
  <2>4. /\ IsFiniteSet(old) /\ Cardinality(old) \in Nat
        /\ IsFiniteSet(wait) /\ Cardinality(wait) \in Nat
    BY <2>3, FlagsFinite
  <2>5. Cardinality(old) + (IF now <= t + Cooldown THEN Cardinality(wait) ELSE 0)
          <= Cardinality(Requests)
    BY <1>15, <2>1, <2>2, <2>3 DEF CooldownInv
  <2>6. old = {x \in 1..n : /\ x >= e /\ g[x].ip = ip
                            /\ g[x].time <= t + Cooldown /\ ~g[x].unchecked}
    BY <1>2, <1>15, <2>1, <2>2, <2>3 DEF CountedFrom
  <2>7. CASE f.ip = ip /\ now <= t + Cooldown /\ ~f.unchecked
    <3>1. counted \subseteq old \cup {n + 1} /\ n + 1 \notin old
      BY <1>2, <1>10, <1>12, <1>13, <1>15, <2>6
    <3>2. IsFiniteSet(old \cup {n + 1})
          /\ Cardinality(old \cup {n + 1}) = Cardinality(old) + 1
      BY <2>4, <3>1, FS_AddElement
    <3>3. Cardinality(counted) \in Nat /\ Cardinality(counted) <= Cardinality(old) + 1
      BY <3>1, <3>2, FS_Subset, FS_CardinalityType
    <3>4. r \in wait
      BY <1>2, <1>3, <2>3, <2>7 DEF AboutToFlag
    <3>5. IsFiniteSet(wait \ {r}) /\ Cardinality(wait \ {r}) = Cardinality(wait) - 1
      BY <2>4, <3>4, FS_RemoveElement
    <3>6. Cardinality(about) <= Cardinality(wait) - 1
      BY <1>16, <2>3, <3>5, FS_Subset
    <3>7. Cardinality(counted) + Cardinality(about) <= Cardinality(Requests)
      BY <1>5, <1>17, <2>4, <2>5, <2>7, <3>3, <3>6
    <3>8. QED
      BY <1>15, <2>7, <3>7
  <2>8. CASE ~(f.ip = ip /\ now <= t + Cooldown /\ ~f.unchecked)
    <3>1. n + 1 \notin counted
      BY <1>2, <1>6, <1>10, <1>12, <1>13, <1>15, <2>8
    <3>2. counted \subseteq old
      BY <1>2, <1>10, <1>12, <1>13, <1>15, <2>6, <3>1
    <3>3. Cardinality(counted) \in Nat /\ Cardinality(counted) <= Cardinality(old)
      BY <2>4, <3>2, FS_Subset, FS_CardinalityType
    <3>4. Cardinality(about) <= Cardinality(wait)
      BY <1>16, <2>3, <2>4, FS_Subset
    <3>5. CASE now <= t + Cooldown
      <4>1. Cardinality(counted) + Cardinality(about) <= Cardinality(Requests)
        BY <1>5, <1>17, <2>4, <2>5, <3>3, <3>4, <3>5
      <4>2. QED
        BY <1>15, <3>5, <4>1
    <3>6. CASE ~(now <= t + Cooldown)
      <4>1. Cardinality(counted) + 0 <= Cardinality(Requests)
        BY <1>5, <2>4, <2>5, <3>3, <3>6
      <4>2. QED
        BY <1>15, <3>6, <4>1
    <3>7. QED
      BY <3>5, <3>6
  <2>9. QED
    BY <2>7, <2>8
<1>21. QED
  BY <1>19, <1>20

(***************************************************************************)
(* With any number of requests at once, whatever their order and whatever  *)
(* fails, a cooldown has at most as many events of an address as requests  *)
(* run at once, from any event on that the lookup still scans.             *)
(***************************************************************************)
THEOREM AlwaysCooldownHolds ==
  ASSUME IsFiniteSet(Requests)
  PROVE  Spec => []CooldownHolds
<1>1. Init => CooldownInv
  BY DEF Init, CooldownInv, Scanned
<1>2. DetectInv /\ CooldownInv /\ [Next]_vars => CooldownInv'
  BY CooldownKept, CooldownAdded
<1>3. DetectInv /\ CooldownInv => CooldownHolds
  <2> SUFFICES ASSUME DetectInv, CooldownInv, NEW e \in Scanned
               PROVE  Cardinality(CountedFrom(e)) <= Cardinality(Requests)
    BY DEF CooldownHolds, CountedFrom
  <2>1. PICK n, k : /\ n = Cardinality(CountedFrom(e))
                    /\ k = (IF now <= flags[e].time + Cooldown
                            THEN Cardinality(AboutToFlag(flags[e].ip)) ELSE 0)
    OBVIOUS
  <2>2. n \in Nat /\ k \in Nat /\ n + k <= Cardinality(Requests)
    BY <2>1, FlagsFinite DEF CooldownInv
  <2>3. QED
    BY <2>1, <2>2, FS_CardinalityType
<1>4. QED
  BY <1>1, <1>2, <1>3, AlwaysDetectInv, PTL DEF Spec

\* A non-empty set of numbers has a least one.
LEMMA LeastNumber ==
  ASSUME NEW T, T \subseteq Nat, T # {}
  PROVE  \E k \in T : \A j \in T : k <= j
<1>1. PICK R : R = {ss \in Nat \X Nat : ss[1] < ss[2]}
  OBVIOUS
<1>2. IsWellFoundedOn(R, Nat)
  BY <1>1, NatLessThanWellFounded DEF OpToRel
<1>3. PICK k \in T : \A j \in T : ~(<<j, k>> \in R)
  BY <1>2, WFMin
<1>4. \A j \in T : <<j, k>> \in R <=> j < k
  BY <1>1
<1>5. ASSUME NEW j \in T PROVE k <= j
  <2>1. ~(j < k) /\ j \in Nat /\ k \in Nat
    BY <1>3, <1>4
  <2>2. QED
    BY <2>1
<1>6. QED
  BY <1>5

\* An account that was logged in to has a history that is read.
LEMMA HistoryIsRead ==
  ASSUME DetectInv, NEW u, Successes(u) # {}
  PROVE  ListRecentSuccesses(u) # {}
<1>1. PICK n \in Nat : n = Len(attempts) /\ Positions = 1..n
  BY RowsFinite DEF DetectInv
<1>2. Successes(u) \subseteq 1..n
  BY <1>1 DEF Successes
<1>3. PICK T : T = {n - i : i \in Successes(u)}
  OBVIOUS
<1>4. T \subseteq Nat /\ T # {}
  BY <1>1, <1>2, <1>3
<1>5. PICK k \in T : \A j \in T : k <= j
  BY <1>4, LeastNumber
<1>6. PICK i \in Successes(u) : k = n - i
  BY <1>3
<1>7. {j \in Successes(u) : j > i} = {}
  <2> SUFFICES ASSUME NEW j \in Successes(u), j > i PROVE FALSE
    OBVIOUS
  <2>1. n - j \in T
    BY <1>3
  <2>2. n - i <= n - j
    BY <1>5, <1>6, <2>1
  <2>3. QED
    BY <1>1, <1>2, <2>2
<1>8. Cardinality({j \in Successes(u) : j > i}) = 0
  BY <1>7, FS_EmptySet
<1>9. i \in ListRecentSuccesses(u)
  BY <1>8, ThresholdsAssumption DEF ListRecentSuccesses
<1>10. QED
  BY <1>9

\* No step takes away a failure of an address, or one of an account that is
\* still there.
RowsKept ==
  /\ users' \subseteq users
  /\ Positions \subseteq Positions'
  /\ \A i \in Positions :
       /\ attempts'[i].ip = attempts[i].ip
       /\ attempts'[i].time = attempts[i].time
       /\ attempts'[i].success = attempts[i].success
       /\ attempts[i].user \in users' => attempts'[i].user = attempts[i].user

\* Every step keeps the rows, but for the name of an account that is deleted.
LEMMA RowsGrow ==
  ASSUME DetectInv, [Next]_vars
  PROVE  RowsKept
<1>1. CASE UNCHANGED <<users, attempts>>
  BY <1>1 DEF RowsKept, Positions
<1>2. CASE \E r \in Requests : RecordSuccess(r) \/ RecordFailure(r)
  <2>1. PICK r \in Requests : RecordSuccess(r) \/ RecordFailure(r)
    BY <1>2
  <2>2. PICK success \in BOOLEAN : RecordLoginAttempt(r, success)
    BY <2>1 DEF RecordSuccess, RecordFailure
  <2>3. users' = users /\ req[r].pc # "idle"
    BY <2>1 DEF RecordSuccess, RecordFailure, At
  <2>4. PICK n \in Nat : n = Len(attempts) /\ Positions = 1..n /\ attempts \in Seq(Attempt)
    BY RowsFinite DEF DetectInv, TypeOK
  <2>5. CASE attempts' = attempts
    BY <1>1, <2>3, <2>5
  <2>6. CASE attempts' # attempts
    <3>1. PICK row \in Attempt : attempts' = Append(attempts, row)
      BY <2>2, <2>3, <2>6, RecordEnds
    <3>2. Positions' = 1..(n + 1) /\ \A i \in 1..n : attempts'[i] = attempts[i]
      BY <2>4, <3>1 DEF Positions
    <3>3. QED
      BY <2>3, <2>4, <3>2 DEF RowsKept
  <2>7. QED
    BY <2>5, <2>6
<1>3. CASE \E u \in Users : DeleteUser(u)
  <2>1. PICK u \in Users : DeleteUser(u)
    BY <1>3
  <2>2. users' = users \ {u}
    BY <2>1 DEF DeleteUser
  <2>3. QED
    BY <2>1, <2>2, RowsOfDeleted DEF RowsKept
<1>4. QED
  BY <1>1, <1>2, <1>3
  DEF Next, Continue, LoginSucceeds, LoginFails, UserFailures, IPFailures,
      CountTargets, CooldownLookup, RecordFlag, DetectionError, Tick, vars

\* What backs a signal goes on backing it.
LEMMA BackedKept ==
  ASSUME DetectInv, DetectInv', RowsKept, NEW q \in Request, DueBacked(q)
  PROVE  DueBacked(q)'
<1>1. IsFiniteSet(Positions') /\ Positions' = 1..Len(attempts')
  <2>1. attempts' \in Seq(Attempt)
    BY DEF DetectInv, TypeOK
  <2>2. Len(attempts') \in Nat /\ Positions' = 1..Len(attempts')
    BY <2>1 DEF Positions
  <2>3. QED
    BY <2>2, FS_Interval
<1>2. PICK ips, ips1, us, us1 :
        /\ ips = IPFailuresOf(q) /\ ips1 = IPFailuresOf(q)'
        /\ us = UserFailuresOf(q) /\ us1 = UserFailuresOf(q)'
  OBVIOUS
<1>3. /\ IsFiniteSet(ips1) /\ IsFiniteSet(us1)
      /\ {Cardinality(ips), Cardinality(ips1), Cardinality(us), Cardinality(us1)}
           \subseteq Nat
  <2>1. ips1 \subseteq Positions' /\ us1 \subseteq Positions'
    BY <1>2 DEF IPFailuresOf, UserFailuresOf, FailuresFrom, Failures
  <2>2. ips \subseteq Positions /\ us \subseteq Positions
    BY <1>2 DEF IPFailuresOf, UserFailuresOf, FailuresFrom, Failures
  <2>3. QED
    BY <1>1, <2>1, <2>2, RowsFinite, FS_Subset, FS_CardinalityType DEF DetectInv
<1>4. Cardinality(ips) <= Cardinality(ips1)
  <2>1. ips \subseteq ips1
    BY <1>2 DEF IPFailuresOf, FailuresFrom, Failures, RowsKept
  <2>2. QED
    BY <1>3, <2>1, FS_Subset
<1>5. q.user \in users' => Cardinality(us) <= Cardinality(us1)
  <2> SUFFICES ASSUME q.user \in users' PROVE Cardinality(us) <= Cardinality(us1)
    OBVIOUS
  <2>1. us \subseteq us1
    BY <1>2 DEF UserFailuresOf, Failures, RowsKept
  <2>2. QED
    BY <1>3, <2>1, FS_Subset
<1>6. users' \subseteq users
  BY DEF RowsKept
<1>7. PICK k, l : k = UserFailureVelocity /\ l = IPFailureVelocity
                  /\ k \in Nat /\ l \in Nat
  BY ThresholdsAssumption
<1>8. /\ (q.user \in users => Cardinality(us) >= k)
           => (q.user \in users' => Cardinality(us1) >= k)
      /\ Cardinality(ips) >= l => Cardinality(ips1) >= l
  BY <1>3, <1>4, <1>5, <1>6, <1>7
<1>9. QED
  BY <1>2, <1>6, <1>7, <1>8 DEF DueBacked

\* What is due at a login is what its first read can tell, or the next two.
LEMMA DueAtLogin ==
  ASSUME DetectInv, NEW u \in Users, NEW ip \in IPs, NEW agent \in Agent,
         NEW s, s \in Due(u, ip, agent)
  PROVE  /\ s \in {"new_ip", "new_device", "user_failure_velocity",
                   "ip_failure_velocity"}
         /\ s = "new_ip" =>
              ListRecentSuccesses(u) # {} /\ ip \notin KnownIPs(u)
         /\ s = "new_device" =>
              /\ ListRecentSuccesses(u) # {} /\ agent # None
              /\ agent \notin KnownAgents(u)
         /\ s = "user_failure_velocity" =>
              Cardinality({a \in Failures(now - AnomalyWindow) :
                             attempts[a].user = u}) >= UserFailureVelocity
         /\ s = "ip_failure_velocity" =>
              Cardinality({a \in Failures(now - AnomalyWindow) :
                             attempts[a].ip = ip}) >= IPFailureVelocity
<1>1. {a \in Positions : attempts[a].user = u /\ attempts[a].success} = Successes(u)
  BY DEF Successes
<1>2. ListRecentSuccesses(u) \subseteq Successes(u)
  BY DEF ListRecentSuccesses
<1>3. s \in {"new_ip", "new_device", "user_failure_velocity", "ip_failure_velocity"}
  BY DEF Due
<1>4. CASE s = "new_ip"
  <2>1. Successes(u) # {} /\ \A a \in Successes(u) : attempts[a].ip # ip
    BY <1>1, <1>4 DEF Due
  <2>2. ip \notin KnownIPs(u)
    BY <1>2, <2>1 DEF KnownIPs
  <2>3. QED
    BY <1>3, <1>4, <2>1, <2>2, HistoryIsRead
<1>5. CASE s = "new_device"
  <2>1. Successes(u) # {} /\ agent # None /\ \A a \in Successes(u) : attempts[a].agent # agent
    BY <1>1, <1>5 DEF Due
  <2>2. agent \notin KnownAgents(u)
    BY <1>2, <2>1 DEF KnownAgents
  <2>3. QED
    BY <1>3, <1>5, <2>1, <2>2, HistoryIsRead
<1>6. CASE s = "user_failure_velocity"
  BY <1>6 DEF Due
<1>7. CASE s = "ip_failure_velocity"
  BY <1>7 DEF Due
<1>8. QED
  BY <1>3, <1>4, <1>5, <1>6, <1>7

\* The first read backs every signal that is due.
LEMMA LoginBacked ==
  ASSUME DetectInv, NEW r \in Requests, NEW u \in Users, NEW ip \in IPs,
         NEW agent \in Agent, LoginSucceeds(r, u, ip, agent)
  PROVE  \E p \in Request : req' = [req EXCEPT ![r] = p] /\ DueBacked(p)
<1>1. PICK due : due = Due(u, ip, agent)
  OBVIOUS
<1>2. PICK q, obs, signals, pc :
        /\ q = [Idle EXCEPT !.user = u, !.ip = ip, !.agent = agent, !.start = now,
                            !.due = due]
        /\ obs = [NoEvidence EXCEPT !.history = ListRecentSuccesses(u) # {},
                                    !.knownIPs = KnownIPs(u),
                                    !.knownAgents = KnownAgents(u)]
        /\ signals = {"new_ip", "new_device"} /\ pc = "user_failures"
  OBVIOUS
<1>3. q \in Request /\ q.ip \in IPs
  BY <1>1, <1>2, IdleType DEF Request, Due, Target, DetectInv, TypeOK
<1>4. obs \in Observations
  BY <1>2, HistoryType
<1>5. signals \in SUBSET AnomalySignal /\ pc \in PCs
  BY <1>2 DEF AnomalySignal, PCs
<1>6. Read(r, q, obs, signals, pc)
  BY <1>1, <1>2 DEF LoginSucceeds
<1>7. PICK p \in Request :
        req' = [req EXCEPT ![r] = p] /\ ReadInto(p, q, obs, signals, pc)
  BY <1>3, <1>4, <1>5, <1>6, ReadEnds
<1>8. /\ q.user = u /\ q.ip = ip /\ q.agent = agent /\ q.start = now /\ q.due = due
      /\ obs.history = (ListRecentSuccesses(u) # {})
      /\ obs.knownIPs = KnownIPs(u) /\ obs.knownAgents = KnownAgents(u)
  BY <1>2, IdleType DEF Request, NoEvidence
<1>9. /\ p.user = u /\ p.ip = ip /\ p.agent = agent /\ p.start = now /\ p.due = due
      /\ p.pc = "user_failures"
      /\ p.obs = obs \/ {"new_ip", "new_device"} \subseteq p.missed
  BY <1>2, <1>7, <1>8 DEF ReadInto
<1>10. /\ UserFailuresOf(p) = {a \in Failures(now - AnomalyWindow) :
                                 attempts[a].user = u}
       /\ IPFailuresOf(p) = {a \in Failures(now - AnomalyWindow) :
                               attempts[a].ip = ip}
  BY <1>9 DEF UserFailuresOf, IPFailuresOf, FailuresFrom
<1>11. ASSUME NEW s \in due
       PROVE  /\ s \in {"new_ip", "new_device", "user_failure_velocity",
                        "ip_failure_velocity"}
              /\ s = "new_ip" => obs.history /\ ip \notin obs.knownIPs
              /\ s = "new_device" =>
                   obs.history /\ agent # None /\ agent \notin obs.knownAgents
              /\ s = "user_failure_velocity" =>
                   Cardinality(UserFailuresOf(p)) >= UserFailureVelocity
              /\ s = "ip_failure_velocity" =>
                   Cardinality(IPFailuresOf(p)) >= IPFailureVelocity
  <2>1. s \in Due(u, ip, agent)
    BY <1>1
  <2>2. /\ s \in {"new_ip", "new_device", "user_failure_velocity",
                  "ip_failure_velocity"}
        /\ s = "new_ip" =>
             ListRecentSuccesses(u) # {} /\ ip \notin KnownIPs(u)
        /\ s = "new_device" =>
             /\ ListRecentSuccesses(u) # {} /\ agent # None
             /\ agent \notin KnownAgents(u)
        /\ s = "user_failure_velocity" =>
             Cardinality({a \in Failures(now - AnomalyWindow) :
                            attempts[a].user = u}) >= UserFailureVelocity
        /\ s = "ip_failure_velocity" =>
             Cardinality({a \in Failures(now - AnomalyWindow) :
                            attempts[a].ip = ip}) >= IPFailureVelocity
    BY <2>1, DueAtLogin
  <2>3. QED
    BY <1>8, <1>10, <2>2
<1>12. DueBacked(p)
  BY <1>9, <1>11 DEF DueBacked
<1>13. QED
  BY <1>7, <1>12

\* So do the two counts, each for its own.
LEMMA CountsBacked ==
  ASSUME DetectInv, NEW r \in Requests, UserFailures(r) \/ IPFailures(r),
         DueBacked(req[r])
  PROVE  \E p \in Request : req' = [req EXCEPT ![r] = p] /\ DueBacked(p)
<1>1. PICK q \in Request : q = req[r] /\ q.pc # "idle" /\ q.ip \in IPs
  BY DEF UserFailures, IPFailures, At, DetectInv, TypeOK, RowsInv
<1>2. /\ CountFailuresForUser(r) = Cardinality(UserFailuresOf(q))
      /\ CountFailuresForIP(r) = Cardinality(IPFailuresOf(q))
  BY <1>1 DEF CountFailuresForUser, CountFailuresForIP, UserFailuresOf, IPFailuresOf
<1>3. CountFailuresForUser(r) \in Nat /\ CountFailuresForIP(r) \in Nat
  BY RowsFinite DEF CountFailuresForUser, CountFailuresForIP, FailuresFrom, Failures,
                    DetectInv
<1>4. DueBacked(q)
  BY <1>1
<1>5. CASE UserFailures(r)
  <2>1. PICK obs, signals, pc :
          /\ obs = [q.obs EXCEPT !.userFailures = Cardinality(UserFailuresOf(q))]
          /\ signals = {"user_failure_velocity"} /\ pc = "ip_failures"
    OBVIOUS
  <2>2. /\ obs \in Observations /\ signals \in SUBSET AnomalySignal /\ pc \in PCs
        /\ obs.userFailures = Cardinality(UserFailuresOf(q))
        /\ obs.history = q.obs.history /\ obs.knownIPs = q.obs.knownIPs
        /\ obs.knownAgents = q.obs.knownAgents
    BY <1>1, <1>2, <1>3, <2>1 DEF Observations, Request, AnomalySignal, PCs
  <2>3. Read(r, q, obs, signals, pc) /\ q.pc = "user_failures"
    BY <1>1, <1>2, <1>5, <2>1 DEF UserFailures, At
  <2>4. PICK p \in Request :
          req' = [req EXCEPT ![r] = p] /\ ReadInto(p, q, obs, signals, pc)
    <3>1. q \in Request /\ q.ip \in IPs
      BY <1>1
    <3>2. obs \in Observations /\ signals \in SUBSET AnomalySignal /\ pc \in PCs
      BY <2>2
    <3>3. Read(r, q, obs, signals, pc)
      BY <2>3
    <3>4. QED
      BY <3>1, <3>2, <3>3, ReadEnds
  <2>5. /\ p.user = q.user /\ p.ip = q.ip /\ p.agent = q.agent /\ p.start = q.start
        /\ p.due = q.due /\ p.pc = "ip_failures" /\ q.missed \subseteq p.missed
        /\ \/ p.obs = obs
           \/ "user_failure_velocity" \in p.missed /\ p.obs = q.obs
    BY <2>1, <2>4 DEF ReadInto
  <2>6. UserFailuresOf(p) = UserFailuresOf(q) /\ IPFailuresOf(p) = IPFailuresOf(q)
    BY <2>5 DEF UserFailuresOf, IPFailuresOf
  <2>7. DueBacked(p)
    BY <1>4, <2>2, <2>3, <2>5, <2>6 DEF DueBacked
  <2>8. QED
    BY <2>4, <2>7
<1>6. CASE IPFailures(r)
  <2>1. PICK obs, signals, pc :
          /\ obs = [q.obs EXCEPT !.ipFailures = Cardinality(IPFailuresOf(q))]
          /\ signals = {"ip_failure_velocity"} /\ pc = "record_success"
    OBVIOUS
  <2>2. /\ obs \in Observations /\ signals \in SUBSET AnomalySignal /\ pc \in PCs
        /\ obs.ipFailures = Cardinality(IPFailuresOf(q))
        /\ obs.userFailures = q.obs.userFailures
        /\ obs.history = q.obs.history /\ obs.knownIPs = q.obs.knownIPs
        /\ obs.knownAgents = q.obs.knownAgents
    BY <1>1, <1>2, <1>3, <2>1 DEF Observations, Request, AnomalySignal, PCs
  <2>3. Read(r, q, obs, signals, pc) /\ q.pc = "ip_failures"
    BY <1>1, <1>2, <1>6, <2>1 DEF IPFailures, At
  <2>4. PICK p \in Request :
          req' = [req EXCEPT ![r] = p] /\ ReadInto(p, q, obs, signals, pc)
    <3>1. q \in Request /\ q.ip \in IPs
      BY <1>1
    <3>2. obs \in Observations /\ signals \in SUBSET AnomalySignal /\ pc \in PCs
      BY <2>2
    <3>3. Read(r, q, obs, signals, pc)
      BY <2>3
    <3>4. QED
      BY <3>1, <3>2, <3>3, ReadEnds
  <2>5. /\ p.user = q.user /\ p.ip = q.ip /\ p.agent = q.agent /\ p.start = q.start
        /\ p.due = q.due /\ p.pc = "record_success" /\ q.missed \subseteq p.missed
        /\ \/ p.obs = obs
           \/ "ip_failure_velocity" \in p.missed /\ p.obs = q.obs
    BY <2>1, <2>4 DEF ReadInto
  <2>6. DueBacked(p)
    BY <1>4, <2>2, <2>3, <2>5 DEF DueBacked
  <2>7. QED
    BY <2>4, <2>6
<1>7. QED
  BY <1>5, <1>6

\* What Evaluate concludes from observations that back a signal.
LEMMA EvaluateFires ==
  ASSUME NEW obs, NEW ip \in IPs, NEW agent, NEW fired,
         fired = Evaluate(Anomalous, Context(ip, agent), obs)
  PROVE  /\ obs.history /\ ip \notin obs.knownIPs => "new_ip" \in fired
         /\ obs.history /\ agent # None /\ agent \notin obs.knownAgents =>
              "new_device" \in fired
         /\ obs.userFailures >= UserFailureVelocity =>
              "user_failure_velocity" \in fired
         /\ obs.ipFailures >= IPFailureVelocity => "ip_failure_velocity" \in fired
<1>1. /\ Context(ip, agent).ip = ip /\ Context(ip, agent).agent = agent
      /\ Anomalous.userFailures = UserFailureVelocity
      /\ Anomalous.ipFailures = IPFailureVelocity
  BY DEF Context, Anomalous, AnomalyThresholds
<1>2. UserFailureVelocity > 0 /\ IPFailureVelocity > 0
  BY ThresholdsAssumption
<1>3. ip # None
  BY NoneAssumption
<1>4. QED
  BY <1>1, <1>2, <1>3 DEF Evaluate, AnomalySignal

\* The reads of the sessions and of the audit events leave the rest alone.
LEMMA ElsewhereKeeps ==
  ASSUME NEW o \in Observations, NEW obs \in Elsewhere(o)
  PROVE  /\ obs.history = o.history /\ obs.knownIPs = o.knownIPs
         /\ obs.knownAgents = o.knownAgents
         /\ obs.userFailures = o.userFailures /\ obs.ipFailures = o.ipFailures
<1>1. PICK a, b : obs = Answered(o, a, b)
  BY DEF Elsewhere
<1>2. obs = [o EXCEPT !.active = a, !.reuses = b]
  BY <1>1 DEF Answered
<1>3. QED
  BY <1>2 DEF Observations

\* A login whose signals are backed misses none of them at the end.
LEMMA NothingSilent ==
  ASSUME DetectInv, NEW r \in Requests, RecordSuccess(r), DueBacked(req[r]),
         silent = {}
  PROVE  silent' = {}
<1>1. PICK q \in Request : q = req[r] /\ q.pc = "record_success" /\ q.ip \in IPs
  BY DEF RecordSuccess, At, DetectInv, TypeOK, RowsInv
<1>2. PICK obs \in Elsewhere(q.obs) :
        \E fired :
          /\ fired = Evaluate(Anomalous, Context(q.ip, q.agent), obs)
          /\ silent' = IF q.user \in users
                       THEN silent \cup (q.due \ (fired \cup q.missed)) ELSE silent
  BY <1>1 DEF RecordSuccess
<1>3. PICK fired :
        /\ fired = Evaluate(Anomalous, Context(q.ip, q.agent), obs)
        /\ silent' = IF q.user \in users
                     THEN silent \cup (q.due \ (fired \cup q.missed)) ELSE silent
  BY <1>2
<1>4. /\ obs.history = q.obs.history /\ obs.knownIPs = q.obs.knownIPs
      /\ obs.knownAgents = q.obs.knownAgents
      /\ obs.userFailures = q.obs.userFailures /\ obs.ipFailures = q.obs.ipFailures
  <2>1. q.obs \in Observations
    BY <1>1 DEF Request
  <2>2. QED
    BY <2>1, ElsewhereKeeps
<1>5. /\ obs.history /\ q.ip \notin obs.knownIPs => "new_ip" \in fired
      /\ obs.history /\ q.agent # None /\ q.agent \notin obs.knownAgents =>
           "new_device" \in fired
      /\ obs.userFailures >= UserFailureVelocity => "user_failure_velocity" \in fired
      /\ obs.ipFailures >= IPFailureVelocity => "ip_failure_velocity" \in fired
  BY <1>1, <1>3, EvaluateFires
<1>6. ASSUME q.user \in users, NEW s \in q.due \ q.missed PROVE s \in fired
  BY <1>1, <1>4, <1>5, <1>6 DEF DueBacked
<1>7. QED
  BY <1>3, <1>6

\* No other step leads to a request that is judging, or is silent.
LEMMA OnlyLoginsJudge ==
  ASSUME DetectInv, [Next]_vars,
         NEW r \in Requests, req'[r].pc \in Judging
  PROVE  \/ req'[r] = req[r]
         \/ \E u \in Users, ip \in IPs, agent \in Agent : LoginSucceeds(r, u, ip, agent)
         \/ UserFailures(r) \/ IPFailures(r)
<1>1. req \in [Requests -> Request]
  BY DEF DetectInv, TypeOK
<1>2. ASSUME NEW x \in Requests, NEW p, req' = [req EXCEPT ![x] = p],
             p.pc \notin Judging
      PROVE  req'[r] = req[r]
  BY <1>1, <1>2
<1>3. CASE \E x \in Requests, u \in Users, ip \in IPs, agent \in Agent :
             LoginSucceeds(x, u, ip, agent)
  <2>1. PICK x \in Requests, u \in Users, ip \in IPs, agent \in Agent :
          LoginSucceeds(x, u, ip, agent)
    BY <1>3
  <2>2. CASE x = r
    BY <2>1, <2>2
  <2>3. CASE x # r
    BY <1>1, <2>1, <2>3 DEF LoginSucceeds, Read
  <2>4. QED
    BY <2>2, <2>3
<1>4. CASE \E x \in Requests, u \in Target, ip \in IPs : LoginFails(x, u, ip)
  <2>1. PICK x \in Requests, u \in Target, ip \in IPs : LoginFails(x, u, ip)
    BY <1>4
  <2>2. PICK p : p = [Idle EXCEPT !.pc = "record_failure", !.user = u, !.ip = ip]
    OBVIOUS
  <2>3. req' = [req EXCEPT ![x] = p] /\ p.pc \notin Judging
    BY <2>1, <2>2, IdleType DEF LoginFails, Request, Judging
  <2>4. QED
    BY <1>2, <2>3
<1>5. CASE \E x \in Requests : Continue(x)
  <2>1. PICK x \in Requests : Continue(x)
    BY <1>5
  <2>2. CASE UserFailures(x) \/ IPFailures(x)
    BY <1>1, <2>2 DEF UserFailures, IPFailures, Read
  <2>3. CASE RecordSuccess(x) \/ RecordFailure(x)
    <3>1. ToCount(x) /\ req[x].pc # "idle"
      BY <2>3 DEF RecordSuccess, RecordFailure, At
    <3>2. PICK p : req' = [req EXCEPT ![x] = p] /\ p.pc = "count"
      BY <3>1, ToCountType
    <3>3. QED
      BY <1>2, <3>2 DEF Judging
  <2>4. CASE Return(x)
    BY <1>2, <2>4, IdleType DEF Return, Judging
  <2>5. CASE /\ CountTargets(x) \/ CooldownLookup(x)
             /\ ~Return(x)
    <3>1. PICK q \in Request : q = req[x]
      BY <1>1
    <3>2. CASE req' = [req EXCEPT ![x].pc = "cooldown"]
      <4>1. req'[x].pc = "cooldown" /\ (x # r => req'[r] = req[r])
        BY <1>1, <3>1, <3>2 DEF Request
      <4>2. QED
        BY <4>1 DEF Judging
    <3>3. CASE req' = [req EXCEPT ![x].pc = "flag"]
      <4>1. req'[x].pc = "flag" /\ (x # r => req'[r] = req[r])
        BY <1>1, <3>1, <3>3 DEF Request
      <4>2. QED
        BY <4>1 DEF Judging
    <3>4. CASE req' = [req EXCEPT ![x].pc = "flag", ![x].unchecked = TRUE]
      <4>1. req'[x].pc = "flag" /\ (x # r => req'[r] = req[r])
        BY <1>1, <3>1, <3>4 DEF Request
      <4>2. QED
        BY <4>1 DEF Judging
    <3>5. QED
      BY <2>5, <3>2, <3>3, <3>4 DEF CountTargets, CooldownLookup
  <2>6. QED
    BY <2>1, <2>2, <2>3, <2>4, <2>5 DEF Continue, RecordFlag, DetectionError
<1>6. CASE UNCHANGED req
  BY <1>6
<1>7. QED
  BY <1>3, <1>4, <1>5, <1>6 DEF Next, DeleteUser, Tick, vars

\* Only a login's row makes a signal silent.
LEMMA OnlyRowsSilence ==
  ASSUME [Next]_vars
  PROVE  silent' = silent \/ \E r \in Requests : RecordSuccess(r)
  BY DEF Next, Continue, LoginSucceeds, LoginFails, UserFailures, IPFailures,
         RecordFailure, CountTargets, CooldownLookup, RecordFlag, DetectionError,
         DeleteUser, Tick, vars

(***************************************************************************)
(* With any number of requests, rows and accounts, every signal that is    *)
(* due at a login is given at its end, unless its read failed or the       *)
(* account was deleted meanwhile.  Until then it is backed by what the     *)
(* request read, or is about to count: failures only add up.               *)
(***************************************************************************)
THEOREM AlwaysDueIsSignalled == Spec => []DueIsSignalled
<1>1. Init => DueInv
  BY IdleType DEF Init, DueInv, Judging
<1>2. DetectInv /\ DueInv /\ [Next]_vars => DueInv'
  <2> SUFFICES ASSUME DetectInv, DueInv, [Next]_vars PROVE DueInv'
    OBVIOUS
  <2>1. DetectInv' /\ RowsKept
    BY DetectNextInv, RowsGrow
  <2>2. req \in [Requests -> Request] /\ req' \in [Requests -> Request]
    BY <2>1 DEF DetectInv, TypeOK
  <2>3. silent' = {}
    <3>1. CASE \E r \in Requests : RecordSuccess(r)
      <4>1. PICK r \in Requests : RecordSuccess(r)
        BY <3>1
      <4>2. DueBacked(req[r]) /\ silent = {}
        BY <4>1 DEF DueInv, RecordSuccess, At, Judging
      <4>3. QED
        BY <4>1, <4>2, NothingSilent
    <3>2. QED
      BY <3>1, OnlyRowsSilence DEF DueInv
  <2>4. ASSUME NEW r \in Requests, req'[r].pc \in Judging
        PROVE  \E q \in Request : q = req'[r] /\ DueBacked(q)
    <3>1. CASE req'[r] = req[r]
      <4>1. DueBacked(req[r])
        BY <2>4, <3>1 DEF DueInv
      <4>2. QED
        BY <2>2, <3>1, <4>1
    <3>2. CASE \E u \in Users, ip \in IPs, agent \in Agent : LoginSucceeds(r, u, ip, agent)
      <4>1. \E p \in Request : req' = [req EXCEPT ![r] = p] /\ DueBacked(p)
        BY <3>2, LoginBacked
      <4>2. QED
        BY <2>2, <4>1
    <3>3. CASE UserFailures(r) \/ IPFailures(r)
      <4>1. DueBacked(req[r])
        BY <3>3 DEF DueInv, UserFailures, IPFailures, At, Judging
      <4>2. \E p \in Request : req' = [req EXCEPT ![r] = p] /\ DueBacked(p)
        BY <3>3, <4>1, CountsBacked
      <4>3. QED
        BY <2>2, <4>2
    <3>4. QED
      BY <2>4, <3>1, <3>2, <3>3, OnlyLoginsJudge
  <2>5. ASSUME NEW r \in Requests, req'[r].pc \in Judging
        PROVE  DueBacked(req[r])'
    <3>1. PICK q \in Request : q = req'[r] /\ DueBacked(q)
      BY <2>4, <2>5
    <3>2. DueBacked(q)'
      BY <2>1, <3>1, BackedKept
    <3>3. QED
      BY <3>1, <3>2
  <2>6. QED
    BY <2>3, <2>5 DEF DueInv
<1>3. DueInv => DueIsSignalled
  BY DEF DueInv, DueIsSignalled
<1>4. QED
  BY <1>1, <1>2, <1>3, AlwaysDetectInv, PTL DEF Spec

\* An image is not larger than what it is the image of.
LEMMA ImageBound ==
  ASSUME NEW S, IsFiniteSet(S), NEW f
  PROVE  /\ IsFiniteSet({f[x] : x \in S}) /\ Cardinality({f[x] : x \in S}) \in Nat
         /\ Cardinality({f[x] : x \in S}) <= Cardinality(S)
<1>1. PICK T, g : T = {f[x] : x \in S} /\ g = [x \in S |-> f[x]]
  OBVIOUS
<1>2. g \in Surjection(S, T)
  BY <1>1 DEF Surjection
<1>3. IsFiniteSet(T) /\ Cardinality(T) <= Cardinality(S)
  BY <1>2, FS_Surjection
<1>4. QED
  BY <1>1, <1>3, FS_CardinalityType

\* Failures that lose their account count each for itself: the breadth of an
\* address does not fall.
LEMMA BreadthGrows ==
  ASSUME NEW F, IsFiniteSet(F), NEW user, NEW target,
         \A i \in F : user[i] \in {target[i], None}
  PROVE  Cardinality({target[i] : i \in F} \ {None})
           + Cardinality({i \in F : target[i] = None})
           <= Cardinality({user[i] : i \in F} \ {None})
                + Cardinality({i \in F : user[i] = None})
<1>1. PICK A, M, U, N, D, I :
        /\ A = {target[i] : i \in F} \ {None}
        /\ M = {i \in F : target[i] = None}
        /\ U = {user[i] : i \in F} \ {None}
        /\ N = {i \in F : user[i] = None}
        /\ D = {i \in F : user[i] = None /\ target[i] # None}
        /\ I = {target[i] : i \in D}
  OBVIOUS
<1>2. IsFiniteSet(M) /\ IsFiniteSet(N) /\ IsFiniteSet(D)
  BY <1>1, FS_Subset
<1>3. IsFiniteSet(A) /\ IsFiniteSet(U)
  <2>1. /\ IsFiniteSet({target[i] : i \in F}) /\ IsFiniteSet({user[i] : i \in F})
    BY ImageBound
  <2>2. QED
    BY <1>1, <2>1, FS_RemoveElement
<1>4. IsFiniteSet(I) /\ Cardinality(I) <= Cardinality(D)
  BY <1>1, <1>2, ImageBound
<1>5. /\ Cardinality(A) \in Nat /\ Cardinality(M) \in Nat /\ Cardinality(U) \in Nat
      /\ Cardinality(N) \in Nat /\ Cardinality(D) \in Nat /\ Cardinality(I) \in Nat
  BY <1>2, <1>3, <1>4, FS_CardinalityType
<1>6. Cardinality(N) = Cardinality(M) + Cardinality(D)
  <2>1. N = M \cup D /\ M \cap D = {}
    BY <1>1
  <2>2. Cardinality(N) = Cardinality(M) + Cardinality(D) - Cardinality({})
    BY <1>2, <2>1, FS_Union
  <2>3. QED
    BY <1>5, <2>2, FS_EmptySet
<1>7. Cardinality(A) <= Cardinality(U) + Cardinality(D)
  <2>1. A \subseteq U \cup I
    <3> SUFFICES ASSUME NEW x \in A PROVE x \in U \cup I
      OBVIOUS
    <3>1. PICK i \in F : x = target[i] /\ x # None
      BY <1>1
    <3>2. CASE user[i] = None
      BY <1>1, <3>1, <3>2
    <3>3. CASE user[i] = target[i]
      BY <1>1, <3>1, <3>3
    <3>4. QED
      BY <3>2, <3>3
  <2>2. /\ IsFiniteSet(U \cup I)
        /\ Cardinality(U \cup I)
             = Cardinality(U) + Cardinality(I) - Cardinality(U \cap I)
    BY <1>3, <1>4, FS_Union
  <2>3. Cardinality(U \cap I) \in Nat
    BY <1>3, FS_Intersection, FS_CardinalityType
  <2>4. Cardinality(A) <= Cardinality(U \cup I) /\ Cardinality(U \cup I) \in Nat
    BY <2>1, <2>2, FS_Subset, FS_CardinalityType
  <2>5. QED
    BY <1>4, <1>5, <2>2, <2>3, <2>4
<1>8. Cardinality(A) + Cardinality(M) <= Cardinality(U) + Cardinality(N)
  BY <1>5, <1>6, <1>7
<1>9. QED
  BY <1>1, <1>8

\* A count below the threshold leaves the address below it.
LEMMA CountSees ==
  ASSUME DetectInv, NEW ip \in IPs, Targets(ip) >= TargetAccounts
  PROVE  Sprays(ip)
<1>1. PICK F, user, target :
        /\ F = FailuresFrom(ip, now - StuffingWindow)
        /\ user = [i \in F |-> attempts[i].user]
        /\ target = [i \in F |-> attempts[i].target]
  OBVIOUS
<1>2. IsFiniteSet(F) /\ F \subseteq Positions
  BY <1>1, RowsFinite DEF FailuresFrom, Failures, DetectInv
<1>3. \A i \in F : user[i] \in {target[i], None}
  BY <1>1, <1>2 DEF DetectInv, RowsInv, Positions
<1>4. /\ {attempts[i].user : i \in F} = {user[i] : i \in F}
      /\ {attempts[i].target : i \in F} = {target[i] : i \in F}
      /\ {i \in F : attempts[i].user = None} = {i \in F : user[i] = None}
      /\ {i \in F : attempts[i].target = None} = {i \in F : target[i] = None}
  BY <1>1
<1>5. PICK c, b, l :
        /\ c = CountTargetsForIP(ip, now - StuffingWindow)
        /\ b = Cardinality({user[i] : i \in F} \ {None})
                 + Cardinality({i \in F : user[i] = None})
        /\ l = Cardinality({target[i] : i \in F} \ {None})
                 + Cardinality({i \in F : target[i] = None})
  OBVIOUS
<1>6. Breadth(c) = b
  BY <1>1, <1>4, <1>5 DEF CountTargetsForIP, StuffingObservations, Breadth
<1>7. Targets(ip) = l
  BY <1>1, <1>4, <1>5 DEF Targets
<1>8. l <= b
  BY <1>2, <1>3, <1>5, BreadthGrows
<1>9. l \in Nat /\ b \in Nat
  <2>1. /\ IsFiniteSet({target[i] : i \in F}) /\ IsFiniteSet({user[i] : i \in F})
    BY <1>2, ImageBound
  <2>2. /\ IsFiniteSet({target[i] : i \in F} \ {None})
        /\ IsFiniteSet({user[i] : i \in F} \ {None})
        /\ IsFiniteSet({i \in F : user[i] = None})
        /\ IsFiniteSet({i \in F : target[i] = None})
    BY <1>2, <2>1, FS_RemoveElement, FS_Subset
  <2>3. QED
    BY <1>5, <2>2, FS_CardinalityType
<1>10. PICK k : k = TargetAccounts /\ k \in Nat \ {0}
  BY ThresholdsAssumption
<1>11. Breadth(c) >= k /\ k > 0
  BY <1>6, <1>7, <1>8, <1>9, <1>10
<1>12. Stuffing.targetAccounts = k
  BY <1>10 DEF Stuffing, StuffingThresholds
<1>13. "account_spray" \in EvaluateStuffing(Stuffing, c)
  BY <1>11, <1>12 DEF EvaluateStuffing, StuffingSignal
<1>14. QED
  BY <1>5, <1>13 DEF Sprays

\* The failures of an address in the window only leave it, and events stay.
WindowKept(ip) ==
  /\ FailuresFrom(ip, now - StuffingWindow)'
       \subseteq FailuresFrom(ip, now - StuffingWindow)
  /\ \A i \in FailuresFrom(ip, now - StuffingWindow)' :
       /\ attempts'[i].target = attempts[i].target
       /\ attempts'[i].time = attempts[i].time
  /\ \A e \in DOMAIN flags : e \in DOMAIN flags' /\ flags'[e] = flags[e]

\* An address that no attempt is added for loses targets, and gains none.
LEMMA TargetsShrink ==
  ASSUME DetectInv, NEW ip, WindowKept(ip)
  PROVE  Targets(ip)' \in Nat /\ Targets(ip) \in Nat /\ Targets(ip)' <= Targets(ip)
<1>1. PICK F, F1, target :
        /\ F = FailuresFrom(ip, now - StuffingWindow)
        /\ F1 = FailuresFrom(ip, now - StuffingWindow)'
        /\ target = [i \in F |-> attempts[i].target]
  OBVIOUS
<1>2. IsFiniteSet(F) /\ F1 \subseteq F
  BY <1>1, RowsFinite DEF FailuresFrom, Failures, DetectInv, WindowKept
<1>3. PICK A, M, A1, M1 :
        /\ A = {target[i] : i \in F} \ {None} /\ M = {i \in F : target[i] = None}
        /\ A1 = {target[i] : i \in F1} \ {None} /\ M1 = {i \in F1 : target[i] = None}
  OBVIOUS
<1>4. IsFiniteSet(A) /\ IsFiniteSet(M)
  <2>1. IsFiniteSet({target[i] : i \in F})
    BY <1>2, ImageBound
  <2>2. QED
    BY <1>2, <1>3, <2>1, FS_RemoveElement, FS_Subset
<1>5. A1 \subseteq A /\ M1 \subseteq M
  BY <1>2, <1>3
<1>6. /\ Cardinality(A) \in Nat /\ Cardinality(M) \in Nat
      /\ Cardinality(A1) \in Nat /\ Cardinality(M1) \in Nat
      /\ Cardinality(A1) <= Cardinality(A) /\ Cardinality(M1) <= Cardinality(M)
  BY <1>4, <1>5, FS_Subset, FS_CardinalityType
<1>7. Targets(ip) = Cardinality(A) + Cardinality(M)
  <2>1. /\ {attempts[i].target : i \in F} = {target[i] : i \in F}
        /\ {i \in F : attempts[i].target = None} = {i \in F : target[i] = None}
    BY <1>1
  <2>2. QED
    BY <1>1, <1>3, <2>1 DEF Targets
<1>8. Targets(ip)' = Cardinality(A1) + Cardinality(M1)
  <2>1. \A i \in F1 : attempts'[i].target = target[i]
    BY <1>1, <1>2 DEF WindowKept
  <2>2. /\ {attempts'[i].target : i \in F1} = {target[i] : i \in F1}
        /\ {i \in F1 : attempts'[i].target = None} = {i \in F1 : target[i] = None}
    BY <2>1
  <2>3. QED
    BY <1>1, <1>3, <2>2 DEF Targets
<1>9. QED
  BY <1>6, <1>7, <1>8

\* An address that no attempt is added for stays covered.
LEMMA CoveredKept ==
  ASSUME NEW ip, WindowKept(ip), Covered(ip)
  PROVE  Covered(ip)'
<1>1. PICK F1 : F1 = FailuresFrom(ip, now - StuffingWindow)'
  OBVIOUS
<1>2. ASSUME NEW i \in F1
      PROVE  \E e \in DOMAIN flags' :
               flags'[e].ip = ip /\ flags'[e].time >= attempts'[i].time - Cooldown
  <2>1. /\ i \in FailuresFrom(ip, now - StuffingWindow)
        /\ attempts'[i].time = attempts[i].time
    BY <1>1, <1>2 DEF WindowKept
  <2>2. PICK e \in DOMAIN flags :
          flags[e].ip = ip /\ flags[e].time >= attempts[i].time - Cooldown
    BY <2>1 DEF Covered
  <2>3. e \in DOMAIN flags' /\ flags'[e] = flags[e]
    BY DEF WindowKept
  <2>4. QED
    BY <2>1, <2>2, <2>3
<1>3. QED
  BY <1>1, <1>2 DEF Covered

\* Request r records an attempt from the address, and will judge it next.
RecordsFrom(ip) ==
  \E r \in Requests : req[r].ip = ip /\ (RecordSuccess(r) \/ RecordFailure(r))

\* A step that adds no attempt from an address leaves its window no larger.
LEMMA WindowStep ==
  ASSUME DetectInv, [Next]_vars, NEW ip \in IPs, ~RecordsFrom(ip)
  PROVE  WindowKept(ip)
<1>1. CASE UNCHANGED <<attempts, flags, now>>
  BY <1>1 DEF WindowKept, FailuresFrom, Failures, Positions
<1>2. CASE \E r \in Requests : RecordSuccess(r) \/ RecordFailure(r)
  <2>1. PICK r \in Requests : RecordSuccess(r) \/ RecordFailure(r)
    BY <1>2
  <2>2. PICK success \in BOOLEAN : RecordLoginAttempt(r, success)
    BY <2>1 DEF RecordSuccess, RecordFailure
  <2>3. flags' = flags /\ now' = now /\ req[r].pc # "idle" /\ req[r].ip # ip
    BY <2>1 DEF RecordSuccess, RecordFailure, At, RecordsFrom
  <2>4. PICK n \in Nat : n = Len(attempts) /\ Positions = 1..n /\ attempts \in Seq(Attempt)
    BY RowsFinite DEF DetectInv, TypeOK
  <2>5. CASE attempts' = attempts
    BY <1>1, <2>3, <2>5
  <2>6. CASE attempts' # attempts
    <3>1. PICK row \in Attempt : row.ip # ip /\ attempts' = Append(attempts, row)
      <4>1. attempts' = Append(attempts, Row(r, success)) /\ Row(r, success) \in Attempt
        BY <2>2, <2>3, <2>6, RecordEnds
      <4>2. Row(r, success).ip # ip
        BY <2>3 DEF Row
      <4>3. QED
        BY <4>1, <4>2
    <3>2. /\ Positions' = 1..(n + 1) /\ \A i \in 1..n : attempts'[i] = attempts[i]
          /\ attempts'[n + 1] = row
      BY <2>4, <3>1 DEF Positions
    <3>3. ASSUME NEW i \in FailuresFrom(ip, now - StuffingWindow)'
          PROVE  i \in FailuresFrom(ip, now - StuffingWindow) /\ attempts'[i] = attempts[i]
      <4>1. /\ i \in Positions' /\ ~attempts'[i].success
            /\ attempts'[i].time >= now - StuffingWindow /\ attempts'[i].ip = ip
        BY <2>3 DEF FailuresFrom, Failures
      <4>2. i \in 1..n \/ i = n + 1
        BY <2>4, <3>2, <4>1
      <4>3. i \in 1..n
        BY <3>1, <3>2, <4>1, <4>2
      <4>4. QED
        BY <2>4, <3>2, <4>1, <4>3 DEF FailuresFrom, Failures
    <3>4. QED
      BY <2>3, <3>3 DEF WindowKept
  <2>7. QED
    BY <2>5, <2>6
<1>3. CASE \E r \in Requests : RecordFlag(r)
  <2>1. PICK r \in Requests : RecordFlag(r)
    BY <1>3
  <2>2. PICK n, f : Recorded(r, n, f)
    BY <2>1, FlagAdded
  <2>3. /\ n \in Nat /\ DOMAIN flags = 1..n /\ DOMAIN flags' = 1..(n + 1)
        /\ \A e \in 1..n : flags'[e] = flags[e]
    BY <2>2 DEF Recorded
  <2>4. \A e \in DOMAIN flags : e \in DOMAIN flags' /\ flags'[e] = flags[e]
    BY <2>3
  <2>5. attempts' = attempts /\ now' = now
    BY <2>1 DEF RecordFlag
  <2>6. QED
    BY <2>4, <2>5 DEF WindowKept, FailuresFrom, Failures, Positions
<1>4. CASE \E u \in Users : DeleteUser(u)
  <2>1. PICK u \in Users : DeleteUser(u)
    BY <1>4
  <2>2. flags' = flags /\ now' = now
    BY <2>1 DEF DeleteUser
  <2>3. QED
    BY <2>1, <2>2, RowsOfDeleted DEF WindowKept, FailuresFrom, Failures
<1>5. CASE Tick
  <2>1. attempts' = attempts /\ flags' = flags /\ now' = now + 1
    BY <1>5 DEF Tick
  <2>2. ASSUME NEW i \in Positions, attempts[i].time >= now' - StuffingWindow
        PROVE  attempts[i].time >= now - StuffingWindow
    <3>1. attempts[i].time \in Time /\ now \in Time
      BY RowType DEF DetectInv, TypeOK, Attempt
    <3>2. StuffingWindow \in Nat /\ MaxTime \in Nat
      BY ThresholdsAssumption, BoundsAssumption
    <3>3. QED
      BY <2>1, <2>2, <3>1, <3>2 DEF Time
  <2>3. ASSUME NEW i \in FailuresFrom(ip, now - StuffingWindow)'
        PROVE  i \in FailuresFrom(ip, now - StuffingWindow)
    <3>1. /\ i \in DOMAIN attempts' /\ ~attempts'[i].success /\ attempts'[i].ip = ip
          /\ attempts'[i].time >= now' - StuffingWindow
      BY DEF FailuresFrom, Failures, Positions
    <3>2. /\ i \in Positions /\ ~attempts[i].success /\ attempts[i].ip = ip
          /\ attempts[i].time >= now' - StuffingWindow
      BY <2>1, <3>1 DEF Positions
    <3>3. QED
      BY <2>2, <3>2 DEF FailuresFrom, Failures
  <2>4. QED
    BY <2>1, <2>3 DEF WindowKept
<1>6. QED
  BY <1>1, <1>2, <1>3, <1>4, <1>5
  DEF Next, Continue, LoginSucceeds, LoginFails, UserFailures, IPFailures,
      CountTargets, CooldownLookup, DetectionError, vars

\* A step of the judgement of the address.
Judges(r, ip) ==
  /\ req[r].ip = ip
  /\ \/ CountTargets(r) \/ CooldownLookup(r) \/ RecordFlag(r) \/ DetectionError(r)

\* Any other step leaves the address under judgement, and as blind as before.
LEMMA JudgementKept ==
  ASSUME DetectInv, [Next]_vars, NEW ip \in IPs, \A r \in Requests : ~Judges(r, ip)
  PROVE  /\ UnderJudgement(ip) => UnderJudgement(ip)'
         /\ ip \in blind => ip \in blind'
<1>1. req \in [Requests -> Request]
  BY DEF DetectInv, TypeOK
<1>2. ip \in blind => ip \in blind'
  BY DEF Judges, Next, Continue, LoginSucceeds, LoginFails, UserFailures, IPFailures,
         RecordSuccess, RecordFailure, CountTargets, CooldownLookup, RecordFlag,
         DetectionError, DeleteUser, Tick, vars
<1>3. ASSUME NEW x \in Requests, req[x].ip = ip,
             req[x].pc \in {"count", "cooldown", "flag"}
      PROVE  req'[x] = req[x]
  <2>1. ASSUME NEW r \in Requests, NEW u \in Users, NEW agent \in Agent, NEW i \in IPs,
               LoginSucceeds(r, u, i, agent)
        PROVE  req'[x] = req[x]
    BY <1>1, <1>3, <2>1 DEF LoginSucceeds, Read, At
  <2>2. ASSUME NEW r \in Requests, NEW u \in Target, NEW i \in IPs, LoginFails(r, u, i)
        PROVE  req'[x] = req[x]
    BY <1>1, <1>3, <2>2 DEF LoginFails, At
  <2>3. ASSUME NEW r \in Requests, UserFailures(r) \/ IPFailures(r)
        PROVE  req'[x] = req[x]
    BY <1>1, <1>3, <2>3 DEF UserFailures, IPFailures, Read, At
  <2>4. ASSUME NEW r \in Requests, RecordSuccess(r) \/ RecordFailure(r)
        PROVE  req'[x] = req[x]
    <3>1. r # x /\ ToCount(r)
      BY <1>3, <2>4 DEF RecordSuccess, RecordFailure, At
    <3>2. QED
      BY <1>1, <3>1 DEF ToCount
  <2>5. ASSUME NEW r \in Requests,
               CountTargets(r) \/ CooldownLookup(r) \/ RecordFlag(r) \/ DetectionError(r)
        PROVE  req'[x] = req[x]
    <3>1. r # x
      BY <1>3, <2>5 DEF Judges
    <3>2. QED
      BY <1>1, <2>5, <3>1
      DEF CountTargets, CooldownLookup, RecordFlag, DetectionError, Return
  <2>6. CASE UNCHANGED req
    BY <2>6
  <2>7. QED
    BY <2>1, <2>2, <2>3, <2>4, <2>5, <2>6 DEF Next, Continue, DeleteUser, Tick, vars
<1>4. QED
  BY <1>2, <1>3 DEF UnderJudgement

\* An address whose count has just been taken is judged on, or has too few
\* targets to be.
LEMMA CountJudges ==
  ASSUME DetectInv, NEW r \in Requests, CountTargets(r), NEW ip \in IPs,
         req[r].ip = ip, Targets(ip) >= TargetAccounts
  PROVE  UnderJudgement(ip)'
<1>1. PICK q \in Request : q = req[r]
  BY DEF DetectInv, TypeOK
<1>2. Sprays(req[r].ip)
  BY CountSees
<1>3. req' = [req EXCEPT ![r].pc = "cooldown"]
  BY <1>2 DEF CountTargets
<1>4. req'[r].pc = "cooldown" /\ req'[r].ip = ip
  BY <1>1, <1>3 DEF DetectInv, TypeOK, Request
<1>5. QED
  BY <1>4 DEF UnderJudgement

\* The lookup lets the request go only if the address has an event that covers
\* every failure up to now.
LEMMA LookupJudges ==
  ASSUME DetectInv, NEW r \in Requests, CooldownLookup(r), NEW ip \in IPs,
         req[r].ip = ip
  PROVE  UnderJudgement(ip)' \/ Covered(ip)'
<1>1. PICK q \in Request : q = req[r]
  BY DEF DetectInv, TypeOK
<1>2. CASE RecentlyFlagged(ip)
  <2>1. PICK e \in DOMAIN flags : flags[e].ip = ip /\ flags[e].time >= now - Cooldown
    BY <1>2 DEF RecentlyFlagged, Scanned
  <2>2. ASSUME NEW i \in FailuresFrom(ip, now - StuffingWindow)
        PROVE  flags[e].time >= attempts[i].time - Cooldown
    <3>1. i \in Positions
      BY DEF FailuresFrom, Failures
    <3>2. attempts[i].time <= now /\ attempts[i].time \in Time
      BY <3>1, RowType DEF DetectInv, RowsInv, Positions, Attempt
    <3>3. flags[e].time \in Time /\ now \in Time
      BY FlagType DEF DetectInv, TypeOK, Flag
    <3>4. QED
      BY <2>1, <3>2, <3>3, BoundsAssumption, ThresholdsAssumption DEF Time
  <2>3. Covered(ip)
    BY <2>1, <2>2 DEF Covered
  <2>4. UNCHANGED <<attempts, flags, now>>
    BY DEF CooldownLookup
  <2>5. QED
    BY <2>3, <2>4 DEF Covered, FailuresFrom, Failures, Positions
<1>3. CASE req' = [req EXCEPT ![r].pc = "flag"]
  <2>1. req'[r].pc = "flag" /\ req'[r].ip = ip
    BY <1>1, <1>3 DEF DetectInv, TypeOK, Request
  <2>2. QED
    BY <2>1 DEF UnderJudgement
<1>4. CASE req' = [req EXCEPT ![r].pc = "flag", ![r].unchecked = TRUE]
  <2>1. req'[r].pc = "flag" /\ req'[r].ip = ip
    BY <1>1, <1>4 DEF DetectInv, TypeOK, Request
  <2>2. QED
    BY <2>1 DEF UnderJudgement
<1>5. QED
  BY <1>2, <1>3, <1>4 DEF CooldownLookup

\* A new event covers every failure of its address.
LEMMA FlagCovers ==
  ASSUME DetectInv, NEW r \in Requests, RecordFlag(r), NEW ip \in IPs,
         req[r].ip = ip
  PROVE  Covered(ip)'
<1>1. PICK n, f : Recorded(r, n, f)
  BY FlagAdded
<1>2. /\ n \in Nat /\ DOMAIN flags' = 1..(n + 1) /\ flags'[n + 1] = f
      /\ f.ip = req[r].ip /\ f.time = now
  BY <1>1 DEF Recorded
<1>3. n + 1 \in DOMAIN flags' /\ flags'[n + 1].ip = ip /\ flags'[n + 1].time = now
  BY <1>2
<1>4. attempts' = attempts /\ now' = now
  BY DEF RecordFlag
<1>5. ASSUME NEW i \in Positions PROVE now >= attempts[i].time - Cooldown
  <2>1. attempts[i].time <= now /\ attempts[i].time \in Time /\ now \in Time
    BY RowType DEF DetectInv, TypeOK, RowsInv, Positions, Attempt
  <2>2. QED
    BY <2>1, BoundsAssumption, ThresholdsAssumption DEF Time
<1>6. ASSUME NEW i \in FailuresFrom(ip, now - StuffingWindow)' PROVE i \in Positions
  BY <1>4 DEF FailuresFrom, Failures, Positions
<1>7. QED
  BY <1>3, <1>4, <1>5, <1>6 DEF Covered

(***************************************************************************)
(* With any number of requests, failures and addresses, an address that    *)
(* reached the threshold and has no request under way was flagged within   *)
(* a cooldown of each of its failures, unless its last count or event      *)
(* failed.  While it is neither, a request of it is still to look: every   *)
(* new row comes with one, and one that ends either finds too few targets, *)
(* finds an event, adds one, or leaves the address blind.                  *)
(***************************************************************************)
THEOREM AlwaysSprayIsFlagged == Spec => []SprayIsFlagged
<1>1. Init => SprayInv
  <2> SUFFICES ASSUME Init, NEW ip \in IPs PROVE Covered(ip)
    BY DEF SprayInv
  <2>1. FailuresFrom(ip, now - StuffingWindow) = {}
    BY DEF Init, FailuresFrom, Failures, Positions
  <2>2. QED
    BY <2>1 DEF Covered
<1>2. DetectInv /\ SprayInv /\ [Next]_vars => SprayInv'
  <2> SUFFICES ASSUME DetectInv, SprayInv, [Next]_vars,
                      NEW ip \in IPs, ip \notin blind', Targets(ip)' >= TargetAccounts
               PROVE  UnderJudgement(ip)' \/ Covered(ip)'
    BY DEF SprayInv
  <2>1. CASE RecordsFrom(ip)
    <3>1. PICK r \in Requests :
            req[r].ip = ip /\ req[r].pc # "idle" /\ ToCount(r)
      BY <2>1 DEF RecordsFrom, RecordSuccess, RecordFailure, At
    <3>2. PICK q : q.pc = "count" /\ q.ip = req[r].ip /\ req' = [req EXCEPT ![r] = q]
      BY <3>1, ToCountType
    <3>3. req'[r].pc = "count" /\ req'[r].ip = ip
      BY <3>1, <3>2 DEF DetectInv, TypeOK
    <3>4. QED
      BY <3>3 DEF UnderJudgement
  <2>2. CASE ~RecordsFrom(ip)
    <3>1. WindowKept(ip)
      BY <2>2, WindowStep
    <3>2. Targets(ip) >= TargetAccounts
      <4>1. Targets(ip)' \in Nat /\ Targets(ip) \in Nat /\ Targets(ip)' <= Targets(ip)
        BY <3>1, TargetsShrink
      <4>2. PICK a, b, k : a = Targets(ip)' /\ b = Targets(ip) /\ k = TargetAccounts
        OBVIOUS
      <4>3. k \in Nat /\ a \in Nat /\ b \in Nat /\ a <= b /\ a >= k
        BY <4>1, <4>2, ThresholdsAssumption
      <4>4. b >= k
        BY <4>3
      <4>5. QED
        BY <4>2, <4>4
    <3>3. CASE \E r \in Requests : Judges(r, ip)
      <4>1. PICK r \in Requests : Judges(r, ip)
        BY <3>3
      <4>2. CASE CountTargets(r)
        BY <3>2, <4>1, <4>2, CountJudges DEF Judges
      <4>3. CASE CooldownLookup(r)
        BY <4>1, <4>3, LookupJudges DEF Judges
      <4>4. CASE RecordFlag(r)
        BY <4>1, <4>4, FlagCovers DEF Judges
      <4>5. CASE DetectionError(r)
        BY <4>1, <4>5 DEF Judges, DetectionError
      <4>6. QED
        BY <4>1, <4>2, <4>3, <4>4, <4>5 DEF Judges
    <3>4. CASE \A r \in Requests : ~Judges(r, ip)
      <4>1. /\ UnderJudgement(ip) => UnderJudgement(ip)'
            /\ ip \notin blind
        BY <3>4, JudgementKept
      <4>2. UnderJudgement(ip) \/ Covered(ip)
        BY <3>2, <4>1 DEF SprayInv
      <4>3. QED
        BY <3>1, <4>1, <4>2, CoveredKept
    <3>5. QED
      BY <3>3, <3>4
  <2>3. QED
    BY <2>1, <2>2
<1>3. SprayInv => SprayIsFlagged
  BY DEF SprayInv, SprayIsFlagged, UnderJudgement, Covered
<1>4. QED
  BY <1>1, <1>2, <1>3, AlwaysDetectInv, PTL DEF Spec
=============================================================================
