SPECIFICATION FairSpec
CONSTANTS
  img = img
  usr = usr
  junk = junk
  Data <- MCData
  Junk = junk
  NumCells = 2
  NumSec = 2
  BootShift = 1
  MaxXfer = 1
  MaxRetries = 2
  ReinitRetries = 1
  MaxMode = 2
  MaxCalls = 3
  Fill <- MCFill
  InitMedia <- MCMedia
INVARIANT TypeOK
CHECK_DEADLOCK FALSE
INVARIANT AddressedPartition
INVARIANT ReinitKeepsTrack
PROPERTY ImplementsContract
PROPERTY CallsReturn
