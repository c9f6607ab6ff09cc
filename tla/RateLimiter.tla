---------------------------- MODULE RateLimiter ----------------------------
(***************************************************************************)
(* The two fixed-window rate limiters, for one key: InMemoryRateLimiter    *)
(* and RedisRateLimiter's script.                                          *)
(*                                                                         *)
(* Allow runs under a mutex, or as one Redis script, so each call is one   *)
(* step however many goroutines or engines make it.  Time is kept relative *)
(* to now, in ticks, which leaves the clock unbounded and the state finite.*)
(***************************************************************************)
EXTENDS Integers, FiniteSets

CONSTANTS Limit,    \* calls allowed per window
          Window,   \* its length, in ticks
          MaxHits   \* bound on the Redis counter

ASSUME LimitAssumption == Limit \in Nat \ {0}
ASSUME WindowAssumption == Window \in Nat \ {0}
ASSUME MaxHitsAssumption == MaxHits \in Nat /\ MaxHits > Limit

VARIABLES
  backend, \* which limiter the host configured
  count,   \* windowCounter.count; the Redis key's value, 0 if there is none
  left,    \* ticks to windowEnd, -1 past it; ticks to the key's expiry, -1
           \* if it has none
  recent,  \* history: recent[a]: calls allowed a ticks ago
  verdict  \* history: what the last call returned

limiterVars == <<backend, count, left, recent, verdict>>

TypeOK ==
  /\ backend \in {"memory", "redis"}
  /\ count \in 0..MaxHits
  /\ left \in -1..Window
  /\ recent \in [0..(Window - 1) -> Nat]
  /\ verdict \in {"none", "allowed", "denied", "error"}

\* Redis may hold "a key set by hand, or one left behind by a process that
\* died between the INCR and the PEXPIRE of some older non-atomic
\* implementation": a counter with no expiry.
LimiterInit ==
  /\ backend \in {"memory", "redis"}
  /\ IF backend = "redis" THEN count \in 0..MaxHits ELSE count = 0
  /\ left = -1
  /\ recent = [a \in 0..(Window - 1) |-> 0]
  /\ verdict = "none"

Grant == recent' = [recent EXCEPT ![0] = @ + 1] /\ verdict' = "allowed"
Deny  == UNCHANGED recent /\ verdict' = "denied"

-----------------------------------------------------------------------------
(* InMemoryRateLimiter.Allow *)

AtLimit == count >= Limit

\* No counter yet, or now.After(windowEnd): a new window.
AllowNewWindow ==
  /\ backend = "memory"
  /\ left < 0
  /\ count' = 1
  /\ left' = Window
  /\ Grant

AllowInWindow ==
  /\ backend = "memory"
  /\ left >= 0
  /\ \/ AtLimit /\ Deny /\ UNCHANGED count
     \/ ~AtLimit /\ Grant /\ count' = count + 1
  /\ UNCHANGED left

-----------------------------------------------------------------------------
(* RedisRateLimiter.Allow *)

\* Mutant: only a counter that the call created gets an expiry.
RearmNewOnly(hits) == hits = 1

\* hits == 1 or PTTL < 0: the script calls PEXPIRE.
Rearms(hits) == hits = 1 \/ left < 0

\* Past MaxHits, which is over the limit, the counter's value says no more.
Saturated(hits) == IF hits > MaxHits THEN MaxHits ELSE hits

\* The INCR and the PEXPIRE of the script.
Script ==
  /\ backend = "redis"
  /\ count' = Saturated(count + 1)
  /\ left' = IF Rearms(count + 1) THEN Window ELSE left

\* Mutant: off by one.
ExceedsByTwo(hits) == hits > Limit + 1

Exceeds(hits) == hits > Limit

AllowRedis ==
  /\ Script
  /\ IF Exceeds(count + 1) THEN Deny ELSE Grant

\* The script ran and the client got an error: the call is refused, and
\* counted.
AllowUnanswered ==
  /\ Script
  /\ verdict' = "error"
  /\ UNCHANGED recent

-----------------------------------------------------------------------------

Aged == [a \in 0..(Window - 1) |-> IF a = 0 THEN 0 ELSE recent[a - 1]]

Tick ==
  /\ recent' = Aged
  /\ \/ /\ backend = "memory"
        /\ left' = IF left < 0 THEN left ELSE left - 1
        /\ UNCHANGED count
     \/ /\ backend = "redis"
        /\ left' = IF left <= 1 THEN -1 ELSE left - 1
        /\ count' = IF left = 1 THEN 0 ELSE count
  /\ UNCHANGED verdict

Allow == AllowNewWindow \/ AllowInWindow \/ AllowRedis

LimiterNext == (Allow \/ AllowUnanswered \/ Tick) /\ UNCHANGED backend

LimiterSpec == LimiterInit /\ [][LimiterNext]_limiterVars

\* Time passes, the caller keeps calling, and the limiter answers.
FairSpec == LimiterSpec /\ WF_limiterVars(Tick /\ UNCHANGED backend)
                        /\ WF_limiterVars(Allow /\ UNCHANGED backend)

-----------------------------------------------------------------------------
(* Properties *)

\* The calls allowed in the last Window ticks: how long ago, and which of the
\* calls of that tick.
Allowed == UNION {{a} \X (1..recent[a]) : a \in DOMAIN recent}

\* However the calls are placed, no stretch of time as long as the window has
\* more than two windows' worth of allowed calls: one burst before and one
\* after a boundary, and never a third.
BurstBounded == Cardinality(Allowed) <= 2 * Limit

\* A caller that was turned away and keeps calling is let in again, even if
\* its counter was found without an expiry ("the counter heals itself"); only
\* an error of Redis may come in between.
DeniedIsLetIn == verdict = "denied" ~> verdict \in {"allowed", "error"}

=============================================================================
