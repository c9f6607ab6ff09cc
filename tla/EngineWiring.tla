---------------------------- MODULE EngineWiring ----------------------------
(***************************************************************************)
(* New: how a Config becomes an Engine, and which parts of the Engine each *)
(* facade function hands to the code that dereferences them.               *)
(*                                                                         *)
(* A Config is the set of its fields that are not nil or empty, with the   *)
(* three knobs that constructors check; 0 is an unset knob.                *)
(***************************************************************************)
EXTENDS Naturals

CONSTANT Configs,   \* the configurations tried
         NoEngine   \* what New returns with an error

Required == {"jwt_secret", "users", "sessions", "audit"}

\* The fields that turn a feature on, or that such a field asks for.
EmailFields == {"verifications", "email_sender", "magic_link_sender"}
SecondFactorFields ==
  {"totp", "encryption_key", "webauthn", "webauthn_rp", "recovery_codes"}
KeyAndWebhookFields == {"api_keys", "webhooks"}
OptionalFields ==
  EmailFields \cup {"oauth"} \cup SecondFactorFields \cup KeyAndWebhookFields

\* Fields that are only consulted, and tuning that defaults stand in for.
DetectionFields == {"breach_checker", "geolocator", "anomalies"}

\* A Config: AccessTokenTTL, BcryptCost and RefreshTokenByteLength are the
\* knobs.
Config(fields, ttl, cost, bytes) ==
  [fields |-> fields, ttl |-> ttl, cost |-> cost, bytes |-> bytes]

VARIABLES config, engine

wiringVars == <<config, engine>>

Has(c, part) == part \in c.fields

-----------------------------------------------------------------------------
(* Config.validate and applyDefaults *)

\* Mutant: a magic-link sender is accepted without its token store.
ValidateNoStore(c) ==
  /\ Required \subseteq c.fields
  /\ Has(c, "totp") \/ Has(c, "webauthn") => Has(c, "encryption_key")
  /\ Has(c, "webauthn") => Has(c, "webauthn_rp")

Validate(c) ==
  /\ Required \subseteq c.fields
  /\ Has(c, "totp") \/ Has(c, "webauthn") => Has(c, "encryption_key")
  /\ Has(c, "webauthn") => Has(c, "webauthn_rp")
  /\ Has(c, "magic_link_sender") => Has(c, "verifications")
  /\ ~Has(c, "api_key_prefix_with_separator")
  /\ Has(c, "webhook_events") => Has(c, "webhooks")
  /\ ~Has(c, "empty_webhook_event")

OrDefault(value, default) == IF value = 0 THEN default ELSE value

ApplyDefaults(c) ==
  [fields |-> c.fields \cup {"logger", "api_key_prefix", "password_policy",
                             "anomaly_thresholds", "stuffing_thresholds"}
              \cup (IF Has(c, "webhooks") THEN {"webhook_events"} ELSE {})
              \cup (IF Has(c, "totp") THEN {"totp_issuer_name"} ELSE {}),
   ttl |-> OrDefault(c.ttl, 15 * 60),
   cost |-> OrDefault(c.cost, 10),
   bytes |-> OrDefault(c.bytes, 32)]

-----------------------------------------------------------------------------
(* New *)

\* The constructors' checks: NewBcryptHasher, where no Hasher was given, and
\* NewCryptoRandTokenGenerator.  NewJWTIssuer's hold by then.
ConstructorsAccept(c) ==
  /\ Has(c, "hasher") \/ (c.cost >= 4 /\ c.cost <= 31)
  /\ c.bytes >= 16

\* The config's fields that the engine keeps as they are.
Kept == Required \cup
  {"verifications", "email_sender", "oauth", "totp", "webauthn",
   "magic_link_sender", "recovery_codes", "api_keys", "logger"}
  \cup DetectionFields

\* What New constructs.  The pending issuer and the encryptor serve both
\* second factors and exist if either is configured.
Constructed(c) ==
  {"hasher", "ids", "rate_limiter", "refresh_gen", "jwt_issuer"}
  \cup (IF Has(c, "totp") \/ Has(c, "webauthn")
        THEN {"pending_issuer", "encryptor"} ELSE {})
  \cup (IF Has(c, "totp") THEN {"totp_gen"} ELSE {})
  \cup (IF Has(c, "webauthn") THEN {"webauthn_provider"} ELSE {})
  \cup (IF Has(c, "webhooks") THEN {"webhook_recorder"} ELSE {})

New ==
  /\ engine = NoEngine
  /\ LET c == ApplyDefaults(config)
     IN  /\ Validate(config) /\ ConstructorsAccept(c)
         /\ engine' = (Kept \cap c.fields) \cup Constructed(c)
  /\ UNCHANGED config

WiringInit ==
  /\ config \in Configs
  /\ engine = NoEngine

WiringNext == New

WiringSpec == WiringInit /\ [][WiringNext]_wiringVars

-----------------------------------------------------------------------------
(* The facade: the parts each function checks for, and the parts that the  *)
(* code behind it uses without a check of its own.                         *)

Call(guard, uses) == [guard |-> guard, uses |-> uses]

\* completePrimaryAuth issues a pending token only where a factor's store is
\* there to say that the account has one.
PrimaryAuth(e) ==
  {"sessions", "ids", "refresh_gen", "jwt_issuer", "audit", "logger"}
  \cup (IF e \cap {"totp", "webauthn"} # {} THEN {"pending_issuer"} ELSE {})

\* SignUp, Login, ChangePassword, DeleteAccount.
PasswordCalls(e) ==
  { Call({}, {"users", "hasher", "ids", "rate_limiter", "audit", "logger"}),
    Call({}, {"users", "hasher", "rate_limiter"} \cup PrimaryAuth(e)),
    Call({}, {"users", "sessions", "hasher", "audit", "logger"}) }

\* RequestEmailChange, ConfirmEmailChange.
EmailCalls ==
  { Call({"verifications", "email_sender"},
         {"users", "verifications", "email_sender", "refresh_gen", "ids",
          "audit", "logger"}),
    Call({"verifications"}, {"users", "verifications", "audit", "logger"}) }

\* LoginWithOAuth, LinkOAuthIdentity.
OAuthCalls(e) ==
  { Call({"oauth"}, {"users", "oauth"} \cup PrimaryAuth(e)),
    Call({"oauth"}, {"users", "oauth", "ids", "audit", "logger"}) }

\* Logout and LogoutAll; VerifyToken, the listings and RevokeSession.
LogoutCalls == { Call({}, {"sessions", "audit", "logger"}) }

TokenAndSessionCalls ==
  { Call({}, {"jwt_issuer"}), Call({}, {"users"}), Call({}, {"sessions"}),
    Call({}, {"sessions", "logger"}), Call({}, {"sessions", "audit", "logger"}) }

\* EnrollTOTP, ConfirmTOTP, DisableTOTP, CompleteLoginWithTOTP.
TOTPCalls ==
  { Call({"totp"}, {"users", "totp", "totp_gen", "encryptor"}),
    Call({"totp"}, {"totp", "totp_gen", "encryptor", "audit", "logger"}),
    Call({"totp"}, {"users", "totp", "hasher", "audit", "logger"}),
    Call({"totp"}, {"users", "sessions", "totp", "totp_gen", "encryptor", "ids",
                    "refresh_gen", "jwt_issuer", "pending_issuer", "audit",
                    "logger"}) }

\* The registration and login ceremonies, ListPasskeys and DeletePasskey.
PasskeyCalls ==
  LET ceremony == {"users", "webauthn", "webauthn_provider", "encryptor"}
  IN  { Call({"webauthn"}, ceremony),
        Call({"webauthn"}, ceremony \cup {"ids", "audit", "logger"}),
        Call({"webauthn"}, {"webauthn"}),
        Call({"webauthn"}, {"users", "webauthn", "hasher", "audit", "logger"}),
        Call({"webauthn"}, ceremony \cup {"pending_issuer"}),
        Call({"webauthn"},
             ceremony \cup {"pending_issuer", "sessions", "ids", "refresh_gen",
                            "jwt_issuer", "audit", "logger"}) }

\* RequestMagicLink and CompleteMagicLink check for the sender only.
MagicLinkCalls(e) ==
  { Call({"magic_link_sender"},
         {"users", "verifications", "magic_link_sender", "refresh_gen", "ids",
          "rate_limiter", "audit", "logger"}),
    Call({"magic_link_sender"}, {"users", "verifications"} \cup PrimaryAuth(e)) }

\* GenerateRecoveryCodes asks whichever factor stores there are.
GenerateRecoveryCodesCall ==
  Call({"recovery_codes"}, {"recovery_codes", "audit", "logger"})

CompleteLoginWithRecoveryCodeCall ==
  Call({"recovery_codes"},
       {"users", "sessions", "recovery_codes", "ids", "refresh_gen",
        "jwt_issuer", "pending_issuer", "audit", "logger"})

\* GenerateAPIKey, AuthenticateAPIKey, ListAPIKeys, RevokeAPIKey.
APIKeyCalls ==
  { Call({"api_keys"}, {"users", "api_keys", "ids", "refresh_gen", "audit",
                        "logger"}),
    Call({"api_keys"}, {"api_keys", "audit", "logger"}),
    Call({"api_keys"}, {"api_keys"}) }

\* The digest, the login diagnosis and the tuning report.
AdminCalls ==
  { Call({}, {"audit"}), Call({}, {"users", "audit", "sessions"}),
    Call({}, {"audit", "rate_limiter"}) }

FacadeCalls(e) ==
  PasswordCalls(e) \cup EmailCalls \cup OAuthCalls(e) \cup LogoutCalls
  \cup TokenAndSessionCalls \cup TOTPCalls \cup PasskeyCalls
  \cup MagicLinkCalls(e) \cup APIKeyCalls \cup AdminCalls
  \cup {GenerateRecoveryCodesCall, CompleteLoginWithRecoveryCodeCall}

-----------------------------------------------------------------------------
(* Properties *)

(***************************************************************************)
(* In an engine that New returned, a facade function either reports that   *)
(* its feature is not configured or finds every part that the code behind  *)
(* it dereferences: validate, applyDefaults and the conditional            *)
(* constructions of New fit the guards spread over the facade.  The one    *)
(* exception is CompleteLoginWithRecoveryCode where recovery codes are     *)
(* configured and no second factor is: nothing built a pending issuer.     *)
(***************************************************************************)
CallsFindTheirParts ==
  engine # NoEngine =>
    \A call \in FacadeCalls(engine) :
      call.guard \subseteq engine =>
        \/ call.uses \subseteq engine
        \/ /\ call = CompleteLoginWithRecoveryCodeCall
           /\ engine \cap {"totp", "webauthn"} = {}

=============================================================================
