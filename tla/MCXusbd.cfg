SPECIFICATION Spec
CONSTANTS
  Slots = 4
  Segment = 2
  Seqs = 3
  Bulk <- MCIn
  Requests <- MCChanging
  Upsets <- MCUpsets
  MaxUpsets = 2
CHECK_DEADLOCK FALSE
INVARIANT ControlRingSound
INVARIANT BulkRingsSound
INVARIANT EventsAgree
INVARIANT LunTold
PROPERTY OkMeansDone
