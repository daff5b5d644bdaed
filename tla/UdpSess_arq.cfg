SPECIFICATION Spec
CONSTANTS
  Window = 2
  MaxRetry = 1
  SeqEnd = 5
  QueueLimit = 2
  MaxOpened = 2
  MaxWrites <- MCWrites
INVARIANT InOrder
INVARIANT AckedIsDelivered
INVARIANT HonestPeersAgree
PROPERTY WriteSettles
CHECK_DEADLOCK FALSE
