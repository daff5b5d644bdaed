SPECIFICATION FairSpec
CONSTANTS
  None = None
  Payer = Payer
  Deposit = 4
  MinDeposit = 2
  Fee = 1
  Price = 2
  MinBlocks = 2
  MaxBlocks = 3
  CloseMargin = 1
  NeedConfs = 2
  Channels = {c1, c2}
  Requests = {r1}
  Expiry <- MCExpiry
  MaxTip = 4
  MaxFaults = 1
PROPERTY OpenChannelSettles
