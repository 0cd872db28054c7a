SPECIFICATION Spec
CONSTANTS
  Automatic = {a}
  Repeated = {x}
  Standalone = {}
  Together <- MCTogether
  Condition = {d1, d2}
  MaxTries = 2
  Requested <- MCRequested
  Outcomes <- MCOutcomes
INVARIANTS
  FailedAttemptsAreEmpty
