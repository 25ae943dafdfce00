\* One control-plane process and two launches of one account, under the fairness
\* the worker justifies.
SPECIFICATION FairSpec
CONSTANTS
  Launch = {l1, l2}
  Process = {p1}
  NoLaunch = NoLaunch
  NoProcess = NoProcess
  Price = 2
  InitialBalance = 5
  MaxBalance = 6
  MaxFaults = 2
  MaxExternal = 1
INVARIANTS ProofIsTrue RefundOnlyWithoutResources ReceiptsMatchWallet OneUnsettledPurchase
PROPERTIES KeepsContract LaunchSettles
CHECK_DEADLOCK FALSE
