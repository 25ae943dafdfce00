SPECIFICATION Spec
CONSTANTS
  Runner = {r1, r2}
  Key = {k1, k2}
  NoOne = NoOne
  Lease = 2
  MaxTime = 3
SYMMETRY RunnersAndKeys
INVARIANTS UnbrokenLease AttemptsAreExclusive
CHECK_DEADLOCK FALSE
