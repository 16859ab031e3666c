SPECIFICATION Spec
CONSTANTS
  Data <- MCData
  Junk <- MCJunk
  NumCells = 2
  NumSec = 5
  BootShift = 0
  Fill <- MCFill
  InitMedia <- MCMedia
  CmdSec = 0
  FwStart = 1
  IplStart = 2
  SecSize = 2
  MaxOps = 2
  MaxFaults = 1
CHECK_DEADLOCK FALSE
PROPERTY ResetIssued
