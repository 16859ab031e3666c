SPECIFICATION FairSpec
CONSTANTS
  Data <- MCData
  Junk <- MCJunk
  NumCells = 2
  NumSec = 4
  BootShift = 0
  Fill <- MCFill
  InitMedia <- MCMedia
  CmdSec = 0
  FwStart = 1
  IplStart = 2
  SecSize = 2
  MaxOps = 2
  MaxFaults = 1
INVARIANT BootDataKept
INVARIANT ReportedSent
CHECK_DEADLOCK FALSE
PROPERTY OperationsEnd
