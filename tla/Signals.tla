------------------------------ MODULE Signals ------------------------------
(***************************************************************************)
(* What the two detectors conclude from what they counted: package         *)
(* security's AnomalyThresholds and CredentialStuffingThresholds.  Both    *)
(* are pure; Detection gathers the observations.                           *)
(***************************************************************************)
EXTENDS Naturals

CONSTANT None  \* the address or user agent that a caller did not supply

AnomalySignal ==
  {"new_ip", "new_device", "user_failure_velocity", "ip_failure_velocity",
   "token_reuse", "concurrent_sessions"}

\* LoginAttemptContext: the attempt that is judged.
Context(ip, agent) == [ip |-> ip, agent |-> agent]

\* AnomalyObservations as declared: what a read that fails leaves there is
\* evidence of nothing.
NoEvidence ==
  [history |-> FALSE, knownIPs |-> {}, knownAgents |-> {}, userFailures |-> 0,
   ipFailures |-> 0, reuses |-> 0, active |-> 0]

\* AnomalyThresholds.  The windows and the history's size bound the reads.
AnomalyThresholds(window, size, user, ip, sessions, lookback) ==
  [window |-> window, historySize |-> size, userFailures |-> user,
   ipFailures |-> ip, sessions |-> sessions, lookback |-> lookback]

\* A threshold of 0 turns its signal off.  The number of sessions is what a
\* user may have, the failures are what flags the attempt.
Evaluate(t, attempt, obs) ==
  LET reaches(count, threshold) == threshold > 0 /\ count >= threshold
      unknown(value, known) ==
        obs.history /\ value # None /\ value \notin known
      fires == [new_ip |-> unknown(attempt.ip, obs.knownIPs),
                new_device |-> unknown(attempt.agent, obs.knownAgents),
                user_failure_velocity |->
                  reaches(obs.userFailures, t.userFailures),
                ip_failure_velocity |-> reaches(obs.ipFailures, t.ipFailures),
                token_reuse |-> obs.reuses > 0,
                concurrent_sessions |->
                  t.sessions > 0 /\ obs.active > t.sessions]
  IN  {s \in AnomalySignal : fires[s]}

-----------------------------------------------------------------------------

StuffingSignal == {"account_spray", "unknown_account_spray"}

\* CredentialStuffingObservations: accounts count once, failures against
\* emails without an account each time.
StuffingObservations(accounts, unknown) ==
  [distinctAccounts |-> accounts, unknownTargetFailures |-> unknown]

Breadth(obs) == obs.distinctAccounts + obs.unknownTargetFailures

\* CredentialStuffingThresholds.
StuffingThresholds(window, targets, cooldown) ==
  [window |-> window, targetAccounts |-> targets, cooldown |-> cooldown]

\* The second signal only qualifies the first.
EvaluateStuffing(t, obs) ==
  {s \in StuffingSignal :
     /\ t.targetAccounts > 0
     /\ Breadth(obs) >= t.targetAccounts
     /\ s = "unknown_account_spray" =>
          obs.unknownTargetFailures > obs.distinctAccounts}

=============================================================================
