SPECIFICATION FairSpec
CONSTANTS
  MaxId = 2
  MaxStreams = 1
  MaxQueue = 2
  MaxLookups = 1
  MaxData = 2
INVARIANT NothingIsOrphaned
INVARIANT SidesAgree
CHECK_DEADLOCK FALSE
PROPERTY EverythingEnds
