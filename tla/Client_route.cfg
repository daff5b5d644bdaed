SPECIFICATION FairSpecClient
CONSTANTS
  First = "e0"
  Peers <- MCPeers
  Preference <- MCPreference
  OffersOf <- MCOffers
  Apps = {"a1", "a2"}
  Kinds <- MCKinds
  None = None
  MaxExpiries = 1
  MaxQueue = 1
INVARIANT SingleConnection
INVARIANT NothingDangles
PROPERTY ClientSettles
CHECK_DEADLOCK FALSE
