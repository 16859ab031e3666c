SPECIFICATION Spec
CONSTANTS
  Base = 3
  Digits = 2
  BootSize = 2
  MaxParts = 4
  Gpp <- MCGpp
  Cards <- MCCards
  NoCard = NoCard
  Used = {"sd", "boot0"}
  MaxSwaps = 1
CHECK_DEADLOCK FALSE
INVARIANT TypeOK
INVARIANT ExportFits
INVARIANT PartExported
INVARIANT PartsToStep
INVARIANT StartHasVolume
INVARIANT SelectorBounded
INVARIANT CursorLive
