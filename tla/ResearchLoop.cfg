SPECIFICATION LiveSpec
CONSTANTS
  Payload = {p1, p2, p3}
  Nothing = Nothing
  Unbound = Unbound
  Parent = Parent
  RepairLimits = {1, 3}
  Generations = 2
INVARIANTS
  BoundedWork
  RecordIsHonest
  FinalIsHonest
PROPERTY RunSettles
CHECK_DEADLOCK FALSE
