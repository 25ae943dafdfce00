SPECIFICATION Spec
CONSTANTS
  r1 = r1
  r2 = r2
  r3 = r3
  c1 = c1
  c2 = c2
  First = first
  Rotation = {r1, r2, r3}
  Caller = {c1, c2}
  MaxFaults = 3
SYMMETRY Symmetric
INVARIANTS KeysInUseAreLive UnfinishedMayGoOn RotationInv
