SPECIFICATION Spec
CONSTANTS
  None = None
  Raises = Raises
  Specs <- MCSpecs
  WeekBars = 3
  MaxBars = 9
  MaxOdd = 2
INVARIANTS
  NoFutureData
  WindowsAnswer
  SeedDecides
PROPERTIES
  OldAnswersStand
CHECK_DEADLOCK FALSE
