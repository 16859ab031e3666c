SPECIFICATION Spec
CONSTANTS
  Slots = 3
  Segment = 2
  Seqs = 2
  Bulk <- MCOut
  Requests <- MCEnumeration
  Upsets <- MCBabble
  MaxUpsets = 1
CHECK_DEADLOCK FALSE
PROPERTY Answered
PROPERTY Started
