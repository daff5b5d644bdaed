SPECIFICATION FairSpecDial
CONSTANTS
  Servers <- MCServers
  Planes <- MCPlanes
  Offers <- MCOffers
  Native = "mgt"
  MaxChoices = 4
INVARIANT NoConnectionLeaks
INVARIANT ErrorIsExhausted
INVARIANT OrderedByHealth
PROPERTY OnlyFailuresArePaused
PROPERTY DialSettles
