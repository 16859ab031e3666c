SPECIFICATION Spec
CHECK_DEADLOCK FALSE
CONSTANTS
  Luns <- MCLuns
  Commands <- MCCommands
  Patience = 4
  MaxUpsets = 1
  Upsets = {"early", "fault", "reset"}
INVARIANT AnswersTrue
INVARIANT NothingAstray
PROPERTY ResetKept
PROPERTY Answered
PROPERTY SessionEnds
