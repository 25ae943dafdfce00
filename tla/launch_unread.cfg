\* The charge is sent without a balance read after a failure before the charge.
SPECIFICATION Spec
CONSTANTS
  Launch = {l1}
  Process = {p1}
  NoLaunch = NoLaunch
  NoProcess = NoProcess
  Price = 2
  InitialBalance = 5
  MaxBalance = 6
  MaxFaults = 1
  MaxExternal = 0
INVARIANT ChargeAfterLiveBalance
CHECK_DEADLOCK FALSE
