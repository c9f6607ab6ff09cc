SPECIFICATION Spec
CONSTANTS
  None = None
  Backends = {"postgres", "sqlite"}
  StoreFails = TRUE
  Passkeys = {k1}
  Secrets = {s1, s2}
  Batches = {b1, b2, b3}
  BatchSize = 2
  Requests = {r1, r2}
SYMMETRY Symmetry
INVARIANTS WorkingBatchesOverlapped GateNotSkipped ConfirmedWasCaptured
PROPERTY CodesAreOneTime
