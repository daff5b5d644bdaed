SPECIFICATION SpecRendezvous
CONSTANTS
  MaxGen = 3
  MaxFaults = 1
  Fresh = FALSE
  MaxStamp = 1
INVARIANT AdvertisedIsServed
INVARIANT GraceKept
INVARIANT HeldIsWhole
PROPERTY NeverWithdrawn
PROPERTY RotationRecovers
PROPERTY HeldNeverOlder
PROPERTY ClientFollows
