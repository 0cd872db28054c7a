SPECIFICATION LiveSpec
CONSTANTS
  Job = {j1, j2, j3}
  NoJob = NoJob
  MaxConcurrency = 1
  MaxAttempts = 2
INVARIANTS
  PermitsAccounted
  AnswerDecides
  RetriesAreUsedUp
PROPERTIES
  SettledStays
  RunsEnd
CHECK_DEADLOCK FALSE
