---------------------------- MODULE MCComponents ----------------------------
(***************************************************************************)
(* The components whose state is their own.  They share nothing, so a      *)
(* behaviour explores the one that "focus" names while the others rest in  *)
(* an initial state of theirs.                                             *)
(***************************************************************************)
EXTENDS Credentials, AccessTokens, EngineWiring, AskQueries, DeviceList,
        LogPipeline, RateLimiter, Startup, TLC

VARIABLE focus

-----------------------------------------------------------------------------
(* Credentials *)

MCPassword(name, len, has, breached) ==
  [name |-> name, len |-> len, has |-> has, breached |-> breached]

MCPasswords ==
  { MCPassword("short", 5, {"lower"}, FALSE),
    MCPassword("plain", 12, {"lower"}, TRUE),
    MCPassword("mixed", 72, {"lower", "digit"}, FALSE),
    MCPassword("long", 90, {"lower", "digit"}, FALSE) }

MCBcrypt(cost) == [kind |-> "bcrypt", cost |-> cost]
MCArgon(mem, iter, par, salt, key) ==
  [kind |-> "argon2id", params |-> Argon2idParams(mem, iter, par, salt, key)]
MCCustom(rehasher) ==
  [kind |-> "custom", name |-> "scrypt", rehasher |-> rehasher]

\* Cheaper, dearer and mixed parameters, unset ones, and four that no
\* constructor takes.
MCHashers ==
  { MCBcrypt(4), MCBcrypt(12), MCBcrypt(3), MCBcrypt(32),
    MCArgon(0, 0, 0, 0, 0), MCArgon(128 * 1024, 2, 1, 16, 32),
    MCArgon(19 * 1024, 2, 1, 8, 16), MCArgon(31, 1, 4, 16, 32),
    MCArgon(64 * 1024, 0, 1, 16, 32), MCCustom(TRUE), MCCustom(FALSE) }

MCPolicies ==
  { DefaultPasswordPolicy, [min |-> 1, max |-> 0, require |-> {"digit"}] }

MCArgonHash(version, clean, m, t, p) ==
  [format |-> "argon2id", version |-> version, clean |-> clean, m |-> m,
   t |-> t, p |-> p, salt |-> 16, keyLen |-> 32, key |-> ""]

\* A cheap bcrypt hash, two Argon2id ones that do not decode, one whose memory
\* is less than this package would write, and one of another framework.
MCImported ==
  { [format |-> "bcrypt", cost |-> 5, key |-> ""],
    MCArgonHash(16, TRUE, 65536, 3, 4), MCArgonHash(19, FALSE, 65536, 3, 4),
    MCArgonHash(19, TRUE, 8, 3, 4), [format |-> "pbkdf2", key |-> ""] }

-----------------------------------------------------------------------------
(* AccessTokens *)

\* What a host may return: nothing, its own claims, "typ", and names that are
\* refused.
MCHostClaims ==
  { {}, {"role"}, {"role", "typ"}, {"role", "sub"}, {"exp"}, {"role", ""} }

-----------------------------------------------------------------------------
(* EngineWiring *)

\* Every choice of optional parts; and, without them, every missing required
\* part, knob and invalid field.
MCConfigs ==
  { Config(Required \cup opts, 0, 0, 0) : opts \in SUBSET OptionalFields }
  \cup { Config(Required \ {part}, 0, 0, 0) : part \in Required }
  \cup { Config(Required \cup DetectionFields \cup extra, ttl, cost, bytes) :
           extra \in SUBSET {"hasher", "webhook_events",
                             "api_key_prefix_with_separator",
                             "empty_webhook_event"},
           ttl \in {0, 60}, cost \in {0, 3, 31}, bytes \in {0, 15, 16} }

-----------------------------------------------------------------------------
(* AskQueries *)

\* Two users' rows, and an audit event whose user was deleted.
MCTables ==
  [users |-> { [id |-> u, email |-> u, failed_attempts |-> 1,
                locked_until |-> Null, created_at |-> u, password_hash |-> u] :
               u \in {1, 2} },
   sessions |-> { [id |-> s, user_id |-> IF s < 3 THEN 1 ELSE 2, ip |-> s,
                   user_agent |-> 1, created_at |-> s, revoked_at |-> Null,
                   token_hash |-> s] : s \in 1..4 },
   audit_events |-> { [id |-> a, type |-> 1, ip |-> a, created_at |-> a,
                       user_id |-> IF a = 3 THEN Null ELSE a] : a \in 1..3 }]

MCFilters ==
  { Filter("user_id", "=", 2), Filter("user_id", ">", 0), Filter("id", "=", 2),
    Filter("ip", "contains", 0), Filter("ip", "<", 3),
    Filter("created_at", "contains", 1), Filter("token_hash", "=", 1),
    Filter("ip", "or", 1) }

MCIntents ==
  { [entity |-> e, filters |-> f, aggregate |-> a, groupBy |-> g, limit |-> n] :
      e \in {"users", "sessions", "audit_events", "api_keys"},
      f \in {{}} \cup {{x, y} : x, y \in MCFilters},
      a \in {"", "count", "group_by", "sum"},
      g \in {"user_id", "token_hash"}, n \in {0, 1, 3} }

-----------------------------------------------------------------------------
(* DeviceList *)

MCAgents ==
  { {}, {"edg/", "chrome/", "safari/", "windows", "windows nt"},
    {"chrome/", "safari/", "android", "linux", "mobile", "bot "},
    {"safari/", "iphone", "mobile", "mac os x"},
    {"crios/", "safari/", "ipad", "mac os x", "mobile"},
    {"opr/", "chrome/", "safari/", "macintosh", "mac os x"},
    {"bingbot", "chrome/", "safari/", "bot/", "+http"}, {"crawler", "linux"} }

MCPlaces ==
  { Location("SF", "blank", "US"), Location("", "blank", "") }

MCListings ==
  { << [id |-> 1, ip |-> i, ua |-> a], [id |-> 2, ip |-> j, ua |-> b],
       [id |-> 3, ip |-> i, ua |-> a] >> :
      i \in {"a"}, j \in {"", "a", "b"}, a, b \in MCAgents }

-----------------------------------------------------------------------------
(* LogPipeline *)

MCLeaves == { Nil, ConsoleJSONLogger, LogFunc(FALSE), LogFunc(TRUE) }

MCChains ==
  MCLeaves \cup { NewLevelFilter(t, 2) : t \in MCLeaves }
           \cup { NewRedactor(t, h, {}) : t \in MCLeaves, h \in BOOLEAN }
           \cup { NewLevelFilter(NewRedactor(t, FALSE, {"note", ""}), 7) :
                    t \in MCLeaves }

MCOtherChains ==
  { Nil, LogFunc(FALSE), LogFunc(TRUE), NewRedactor(LogFunc(FALSE), TRUE, {"IP"}) }

MCFanOuts ==
  { NewMultiLogger(<<a, b>>) : a \in MCChains, b \in MCOtherChains }
  \cup { NewMultiLogger(<<b, a>>) : a \in MCChains, b \in MCOtherChains }

MCTrees ==
  { OrNop(t) : t \in MCChains } \cup MCFanOuts
  \cup { NewRedactor(t, FALSE, {}) : t \in MCFanOuts }
  \cup { NewLevelFilter(t, 1) : t \in MCFanOuts }
  \cup { NewMultiLogger(<<NewRedactor(t, TRUE, {}), LogFunc(FALSE)>>) : t \in MCFanOuts }

MCLevels == -1..4

MCRecords ==
  { [k \in {"ip", "note"} |-> "v"], [k \in {"IP", "user_id"} |-> "v"],
    [k \in {"user_id"} |-> ""] }

-----------------------------------------------------------------------------
(* The components at rest *)

CredentialsAtRest ==
  /\ hasher = MCBcrypt(12) /\ policy = DefaultPasswordPolicy
  /\ owner = MCPassword("plain", 12, {"lower"}, TRUE)
  /\ stored = Hash(owner) /\ foreign = FALSE /\ outcome = "none"
TokensAtRest ==
  /\ issuer = [secret |-> "s1", ttl |-> 3] /\ clock = 0 /\ minted = {}
WiringAtRest == config = Config(Required, 0, 0, 0) /\ engine = NoEngine
AskAtRest ==
  /\ store = "sqlite" /\ caller = 1 /\ answer = Null
  /\ asked = [entity |-> "users", filters |-> {}, aggregate |-> "",
              groupBy |-> "", limit |-> 0]
DevicesAtRest ==
  /\ listed = <<>> /\ next = 1 /\ located = [ip \in {} |-> Nowhere]
  /\ lookups = <<>> /\ named = <<>>
LogAtRest ==
  /\ tree = NopLogger /\ written = NoWrite /\ delivered = <<>>
  /\ given = [p \in DOMAIN tree |-> NoWrite]
  /\ progress = [p \in DOMAIN tree |-> "idle"]
LimiterAtRest ==
  /\ backend = "memory" /\ count = 0 /\ left = -1 /\ verdict = "none"
  /\ recent = [a \in 0..(Window - 1) |-> 0]
StartupAtRest ==
  /\ pragmas = {} /\ schema = {} /\ marked = {} /\ tx = NoTx /\ crashes = 0
  /\ proc = [p \in Processes |-> Down]

vars == <<focus, credentialVars, tokenVars, wiringVars, askVars, deviceVars,
          logVars, limiterVars, startupVars>>

Init ==
  /\ focus \in {"credentials", "tokens", "wiring", "ask", "devices", "log",
                "limiter", "startup"}
  /\ IF focus = "credentials" THEN CredentialsInit ELSE CredentialsAtRest
  /\ IF focus = "tokens" THEN TokensInit ELSE TokensAtRest
  /\ IF focus = "wiring" THEN WiringInit ELSE WiringAtRest
  /\ IF focus = "ask" THEN AskInit ELSE AskAtRest
  /\ IF focus = "devices" THEN DevicesInit ELSE DevicesAtRest
  /\ IF focus = "log" THEN LogInit ELSE LogAtRest
  /\ IF focus = "limiter" THEN LimiterInit ELSE LimiterAtRest
  /\ IF focus = "startup" THEN StartupInit ELSE StartupAtRest

Next ==
  \/ /\ focus = "credentials" /\ CredentialsNext
     /\ UNCHANGED <<focus, tokenVars, wiringVars, askVars, deviceVars, logVars,
                    limiterVars, startupVars>>
  \/ /\ focus = "tokens" /\ TokensNext
     /\ UNCHANGED <<focus, credentialVars, wiringVars, askVars, deviceVars,
                    logVars, limiterVars, startupVars>>
  \/ /\ focus = "wiring" /\ WiringNext
     /\ UNCHANGED <<focus, credentialVars, tokenVars, askVars, deviceVars,
                    logVars, limiterVars, startupVars>>
  \/ /\ focus = "ask" /\ AskNext
     /\ UNCHANGED <<focus, credentialVars, tokenVars, wiringVars, deviceVars,
                    logVars, limiterVars, startupVars>>
  \/ /\ focus = "devices" /\ DevicesNext
     /\ UNCHANGED <<focus, credentialVars, tokenVars, wiringVars, askVars,
                    logVars, limiterVars, startupVars>>
  \/ /\ focus = "log" /\ LogNext
     /\ UNCHANGED <<focus, credentialVars, tokenVars, wiringVars, askVars,
                    deviceVars, limiterVars, startupVars>>
  \/ /\ focus = "limiter" /\ LimiterNext
     /\ UNCHANGED <<focus, credentialVars, tokenVars, wiringVars, askVars,
                    deviceVars, logVars, startupVars>>
  \/ /\ focus = "startup" /\ StartupNext
     /\ UNCHANGED <<focus, credentialVars, tokenVars, wiringVars, askVars,
                    deviceVars, logVars, limiterVars>>

\* The limiter's and the startup's own fairness (FairSpec, StartupSpec); the
\* other components are asked nothing of the kind.
Spec ==
  /\ Init /\ [][Next]_vars
  /\ WF_limiterVars(focus = "limiter" /\ Tick /\ UNCHANGED backend)
  /\ WF_limiterVars(focus = "limiter" /\ Allow /\ UNCHANGED backend)
  /\ \A p \in Processes : WF_startupVars(focus = "startup" /\ Step(p))

\* EveryoneServes, of the behaviours in which the processes start: those of
\* Migrate and CheckPragmas.  In the others they stay at rest.
StartedServe == focus = "startup" => EveryoneServes

=============================================================================
