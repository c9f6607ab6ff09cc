---------------------------- MODULE AccessTokens ----------------------------
(***************************************************************************)
(* Access tokens and pending second-factor tokens: two issuers that sign   *)
(* with one secret, a host's ClaimsProvider that adds claims of its own,   *)
(* and the two Verify functions.                                           *)
(*                                                                         *)
(* A token is the function from claim names to values that it carries,     *)
(* with the secret that signed it.  The clock runs in fractions of a       *)
(* second; jwt.NumericDate keeps whole seconds.                            *)
(***************************************************************************)
EXTENDS Integers, FiniteSets

CONSTANTS Subjects,   \* user ids; "" is the empty one
          Secrets,    \* values of Config.JWTSecret
          HostClaims, \* sets of claim names that a ClaimsProvider returns
          TTLs,       \* values of Config.AccessTokenTTL, in ticks
          PendingTTL, \* mfaPendingTTL, in ticks
          Second,     \* ticks of a second
          MaxClock,   \* bound on the clock
          MaxTokens   \* bound on the tokens handed out

ASSUME SecondAssumption == Second \in Nat \ {0}
ASSUME LifetimesAssumption == TTLs \subseteq Int /\ PendingTTL \in Nat

VARIABLES issuer, \* the JWTIssuer: its secret and ttl
          clock,
          minted  \* history: the tokens handed out, with who asked and when

tokenVars == <<issuer, clock, minted>>

\* jwt.NewNumericDate.
NumericDate(t) == (t \div Second) * Second

\* Mutant: only the claims that the engine sets are refused.
IsReservedClaimInUse(name) == name \in {"exp", "iat"}

IsReservedClaim(name) ==
  name \in {"iss", "sub", "aud", "exp", "nbf", "iat", "jti"}

\* checkExtraClaims: all of them or none.
AcceptsExtraClaims(names) ==
  \A name \in names : name # "" /\ ~IsReservedClaim(name)

\* f with g's entries on top.
Merged(f, g) ==
  [n \in DOMAIN f \cup DOMAIN g |-> IF n \in DOMAIN g THEN g[n] ELSE f[n]]

Registered(sub, ttl) ==
  [n \in {"sub", "iat", "exp"} |->
     CASE n = "sub" -> sub
       [] n = "iat" -> NumericDate(clock)
       [] n = "exp" -> NumericDate(clock + ttl)]

\* Every value a provider puts into a claim is the string "host" here, but
\* for "typ", where it is the one that pending tokens carry.
ProviderClaims(names) ==
  [n \in names |-> IF n = "typ" THEN "mfa_pending" ELSE "host"]

-----------------------------------------------------------------------------
(* Verification *)

\* jwt.ParseWithClaims: the signature, and exp and nbf where present.
Parses(tok, secret) ==
  /\ tok.alg = "HS256" /\ tok.secret = secret
  /\ "exp" \in DOMAIN tok.claims => clock < tok.claims["exp"]

\* VerifyWithClaims: "" is its error.
VerifyWithClaims(tok) ==
  IF /\ Parses(tok, issuer.secret)
     /\ {"exp", "sub"} \subseteq DOMAIN tok.claims
  THEN tok.claims["sub"] ELSE ""

ClaimsForHost(tok) == {n \in DOMAIN tok.claims : ~IsReservedClaim(n)}

\* MFAPendingIssuer.Verify.
VerifyPending(tok) ==
  IF /\ Parses(tok, issuer.secret)
     /\ "typ" \in DOMAIN tok.claims /\ tok.claims["typ"] = "mfa_pending"
  THEN tok.claims["sub"] ELSE ""

-----------------------------------------------------------------------------
(* Issue *)

Mint(kind, user, names, claims, ttl) ==
  /\ Cardinality(minted) < MaxTokens
  /\ minted' = minted \cup
    {[alg |-> "HS256", secret |-> issuer.secret, claims |-> claims,
      kind |-> kind, user |-> user, extra |-> names, at |-> clock,
      ttl |-> ttl]}

\* IssueWithContext.  A provider that fails, or returns a name it must not,
\* yields no token.
IssueWithContext(user, names) ==
  /\ AcceptsExtraClaims(names)
  /\ Mint("access", user, names,
          Merged(Registered(user, issuer.ttl), ProviderClaims(names)),
          issuer.ttl)
  /\ UNCHANGED <<issuer, clock>>

\* MFAPendingIssuer.Issue.
IssuePending(user) ==
  /\ Mint("pending", user, {"typ"},
          Merged(Registered(user, PendingTTL), ProviderClaims({"typ"})),
          PendingTTL)
  /\ UNCHANGED <<issuer, clock>>

\* NewJWTIssuerWithClaims, at a restart with another secret or lifetime.
NewJWTIssuer(secret, ttl) ==
  /\ secret # "" /\ ttl > 0
  /\ issuer' = [secret |-> secret, ttl |-> ttl]
  /\ UNCHANGED <<clock, minted>>

TokenTick ==
  /\ clock < MaxClock
  /\ clock' = clock + 1
  /\ UNCHANGED <<issuer, minted>>

TokensInit ==
  /\ issuer \in [secret : Secrets \ {""}, ttl : {t \in TTLs : t > 0}]
  /\ clock = 0
  /\ minted = {}

TokensNext ==
  \/ \E u \in Subjects, names \in HostClaims : IssueWithContext(u, names)
  \/ \E u \in Subjects : IssuePending(u)
  \/ \E s \in Secrets, t \in TTLs : NewJWTIssuer(s, t)
  \/ TokenTick

TokensSpec == TokensInit /\ [][TokensNext]_tokenVars

-----------------------------------------------------------------------------
(* Properties *)

(***************************************************************************)
(* An access token that VerifyWithClaims accepts names the user it was     *)
(* issued to, under this engine's secret and before its lifetime is over,  *)
(* and hands the host exactly the claims that the host put in.  What the   *)
(* pending issuer's Verify accepts is a pending token of that user within  *)
(* its five minutes, or an access token whose provider set "typ", which is *)
(* not a reserved name.  And until a second before its end, exp being cut  *)
(* to whole seconds, a token is accepted by the Verify of its own kind.    *)
(* (IssueWithContext, checkExtraClaims, VerifyWithClaims, Issue, Verify)   *)
(***************************************************************************)
TokenSpeaksForItsUser ==
  \A tok \in minted :
    /\ tok.kind = "access" /\ VerifyWithClaims(tok) # "" =>
         /\ VerifyWithClaims(tok) = tok.user
         /\ tok.secret = issuer.secret
         /\ clock < tok.at + tok.ttl
         /\ ClaimsForHost(tok) = tok.extra
    /\ VerifyPending(tok) # "" =>
         /\ tok.kind = "pending" \/ "typ" \in tok.extra
         /\ VerifyPending(tok) = tok.user
         /\ tok.secret = issuer.secret
         /\ clock < tok.at + tok.ttl
    /\ tok.secret = issuer.secret /\ tok.user # ""
       /\ clock <= tok.at + tok.ttl - Second
       => tok.user = IF tok.kind = "pending" THEN VerifyPending(tok)
                                             ELSE VerifyWithClaims(tok)

(***************************************************************************)
(* "Never treat one of these as equivalent to a real access token - Verify *)
(* checks a dedicated "typ" claim specifically to prevent that confusion"  *)
(* (MFAPendingIssuer): what VerifyWithClaims accepts was issued as an      *)
(* access token, and not to a caller who still owes a second factor.       *)
(* VerifyWithClaims does not look at "typ".                                *)
(***************************************************************************)
PendingIsNoAccessToken ==
  \A tok \in minted : VerifyWithClaims(tok) # "" => tok.kind = "access"

=============================================================================
