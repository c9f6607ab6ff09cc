----------------------------- MODULE MCSessions -----------------------------
(* Sessions on small sets of users, session ids and concurrent requests. *)
EXTENDS Sessions, TLC

Symmetry == Permutations(Users) \cup Permutations(Sids) \cup Permutations(Requests)

=============================================================================
