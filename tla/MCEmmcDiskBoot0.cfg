SPECIFICATION Spec
CONSTANTS
  img = img
  usr = usr
  junk = junk
  Data <- MCData
  Junk = junk
  NumCells = 2
  NumSec = 2
  BootShift = 1
  MaxXfer = 1
  MaxRetries = 2
  ReinitRetries = 1
  MaxMode = 2
  MaxCalls = 2
  Fill <- MCFill
  InitMedia <- MCMedia
CHECK_DEADLOCK FALSE
PROPERTY OnlyBoot0Written
