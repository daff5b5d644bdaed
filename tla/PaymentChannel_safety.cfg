SPECIFICATION Spec
CONSTANTS
  None = None
  Payer = Payer
  Deposit = 3
  MinDeposit = 2
  Fee = 1
  Price = 2
  MinBlocks = 2
  MaxBlocks = 3
  CloseMargin = 1
  NeedConfs = 2
  Channels = {c1, c2}
  Requests = {r1, r2}
  Expiry <- MCExpiry
  MaxTip = 4
  MaxFaults = 0
SYMMETRY MCSymmetry
INVARIANT PaidIsNotDiscarded
PROPERTY LedgerSpec
