SPECIFICATION FairSpec
CONSTANTS
  None = None
  Timer = timer
  Payments = {timer, connect}
  Channels = {"c1", "c2"}
  Most <- MCMost
  Step = 1
  MaxFaults = 1
INVARIANT SignedAhead
PROPERTY FileIsKept
PROPERTY SignedIsTaken
CHECK_DEADLOCK FALSE
