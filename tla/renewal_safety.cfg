SPECIFICATION BoundedSpec
CONSTANTS
  LastPeriod = 2
  Process = {w1, w2}
  NoProcess = NoProcess
  Price = 1
  InitialBalance = 2
  MaxBalance = 2
  MaxRequests = 1
  MaxFaults = 2
  MaxExternal = 1
  MaxTrouble = 3
  MaxWork = 3
INVARIANTS EntitlementBacked PromiseKept NoStrandedRenewal RenewalInv
PROPERTIES OutcomeIsFinal KeepsSubscription
SYMMETRY ProcessSymmetry
CHECK_DEADLOCK FALSE
