--------------------------- MODULE MCSecondFactor ---------------------------
EXTENDS SecondFactor, TLC

\* Secrets, batches and requests are interchangeable.
Symmetry ==
  Permutations(Secrets) \cup Permutations(Batches) \cup Permutations(Requests)

=============================================================================
