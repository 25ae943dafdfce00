SPECIFICATION Spec
CONSTANTS
  debit = debit
  refund = refund
  extra = extra
  NoEvidence = NoEvidence
  Charge = 3
  Adjustment = {debit, refund, extra}
  Kind <- MixedKind
  Amount <- MixedAmount
  Legacy = {debit}
  Evidence = {e1, e2}
  InitialBalance = 2
  MaxBalance = 4
  MaxFaults = 2
  MaxExternal = 2
INVARIANTS AdjustmentInv RefundsWithinCharge
PROPERTIES StoppedForGood KeepsContract
CHECK_DEADLOCK FALSE
