SPECIFICATION Spec
CONSTANTS
  Payload = {p1, p2, p3}
  Nothing = Nothing
  Unbound = Unbound
  Parent = Parent
  RepairLimits = {3}
  Generations = 1
SYMMETRY Symmetry
INVARIANT OnlyFaultsAbort
CHECK_DEADLOCK FALSE
