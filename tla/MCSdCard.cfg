SPECIFICATION FairSpec
CONSTANTS
  MaxMode = 4
  MaxCalls = 5
  MaxMoves = 4
CHECK_DEADLOCK FALSE
INVARIANT TypeOK
INVARIANT SuccessIsUp
INVARIANT EndRevives
PROPERTY CallsReturn
