---------------------------- MODULE MCDetection ----------------------------
EXTENDS Detection, TLC

\* Users, addresses and requests are interchangeable.
Symmetry ==
  Permutations(Users) \cup Permutations(IPs) \cup Permutations(Requests)

=============================================================================
