----------------------------- MODULE MCDirectory ----------------------------
(* Directory with two accounts, three addresses, one identity and two links. *)
EXTENDS Directory, TLC

Symmetry == Permutations(Uids) \cup Permutations(Emails) \cup Permutations(Externals)
              \cup Permutations(Tids) \cup Permutations(Requests)

=============================================================================
