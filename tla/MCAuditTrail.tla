---------------------------- MODULE MCAuditTrail ----------------------------
EXTENDS AuditTrail, TLC

\* An attention event without a user, and a routine one of the account.
MCOthers ==
  { [type |-> "credential_stuffing_detected", user |-> ""],
    [type |-> "login_success", user |-> "u"] }

MCLoads ==
  { [reports |-> <<"digest", "digest">>, handlers |-> {"other"}],
    [reports |-> <<"digest">>, handlers |-> {"login", "host"}],
    [reports |-> <<"tuning">>, handlers |-> {"login", "other"}],
    [reports |-> <<"diagnosis">>, handlers |-> {"login", "delete"}] }

MCSymmetry == Permutations(Requests)

=============================================================================
