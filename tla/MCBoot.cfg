SPECIFICATION FairSpec
CONSTANTS
  MaxVer = 2
  MaxVisits = 4
  Worlds <- Numbered
INVARIANT MountCacheSound
INVARIANT LaunchWhole
INVARIANT AutomaticOrder
INVARIANT SelectedDrive
CHECK_DEADLOCK FALSE
PROPERTY SearchEnds
