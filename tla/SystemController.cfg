SPECIFICATION Spec
CONSTANTS
  Port = {p8080, p8081}
  MaxStarts = 2
  MaxServers = 2
SYMMETRY Ports
INVARIANTS
  FailedStartIsUndone
  StopEndsOwn
CHECK_DEADLOCK FALSE
