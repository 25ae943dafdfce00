SPECIFICATION FairSpec
CONSTANTS
  LastPeriod = 1
  Process = {w1}
  NoProcess = NoProcess
  Price = 1
  InitialBalance = 2
  MaxBalance = 2
  MaxRequests = 1
  MaxFaults = 2
  MaxExternal = 1
  MaxTrouble = 3
  MaxWork = 0
PROPERTIES RenewalSettles UnpaidIsSuspended
CHECK_DEADLOCK FALSE
