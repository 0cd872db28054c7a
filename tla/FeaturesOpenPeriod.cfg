SPECIFICATION Spec
CONSTANTS
  None = None
  Raises = Raises
  Specs <- OpenWeekSpecs
  WeekBars = 3
  MaxBars = 7
  MaxOdd = 1
INVARIANT
  HigherTimeframeClosed
CHECK_DEADLOCK FALSE
