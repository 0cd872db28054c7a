SPECIFICATION LoopsSpec
CONSTANTS
  NoLimit = NoLimit
  CostBps = 1250
  StopLossPct = 0
  TakeProfitPct = 100
  DailyLossLimitPct = 25
  DailyLossAction = "stop"
  MaxExposurePct = 70
  PositionSizePct = 75
  Symbol = {1, 2}
  Price = {1, 2}
  InitialCash = 1024
  MaxConcurrent = NoLimit
  MaxBars = 5
  StopLossPct1 = 50
  MaxExposurePct1 = NoLimit
  PositionSizePct1 = 100
  InitialCash1 = 65536
  MaxBars1 = 7
INVARIANTS
  ExposureWithinLimit
  EntriesFollowSignals
  ReducedAtNextOpen
  OnePositionAtATime
  SingleExitsAtNextOpen
PROPERTIES
  NoBuyOnALosingDay
  ImplementsPolicy
  TradesConserveEquity
  SingleImplementsPolicy
CHECK_DEADLOCK FALSE
