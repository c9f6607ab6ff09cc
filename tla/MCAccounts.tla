----------------------------- MODULE MCAccounts -----------------------------
(* Accounts with two passwords and a few concurrent requests. *)
EXTENDS Accounts, TLC

Symmetry == Permutations(Passwords) \cup Permutations(Requests)

=============================================================================
