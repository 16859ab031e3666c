SPECIFICATION ToolboxSpec
CONSTANTS
  Data <- MCData
  Junk <- MCJunk
  NumCells = 2
  NumSec = 4
  BootShift = 0
  Fill <- MCFill
  InitMedia <- MCMedia
  CmdSec = 0
  FwStart = 1
  IplStart = 2
  SecSize = 2
  MaxOps = 4
  MaxFaults = 0
CHECK_DEADLOCK FALSE
INVARIANT SentImageWhole
