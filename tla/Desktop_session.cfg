SPECIFICATION FairSpecDesktop
CONSTANTS
  Nothing = Nothing
  Settings = {"strict", "full", "split", "public", "peers"}
  First = "full"
  MaxActs = 3
  MaxFaults = 2
INVARIANT HealthIsCurrent
INVARIANT DisconnectHolds
CHECK_DEADLOCK FALSE
PROPERTY SettlesAsWanted
