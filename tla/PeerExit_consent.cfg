SPECIFICATION FairSpec
CONSTANTS
  None = None
  Sessions = {i1}
  Slots = 1
  MaxCalls = 1
  MaxEvents = 1
INVARIANT SessionsAreCurrent
INVARIANT SharingIsMarked
PROPERTY WithdrawalEnds
