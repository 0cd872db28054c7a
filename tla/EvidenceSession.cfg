SPECIFICATION LiveSpec
CONSTANTS
  Automatic = {a}
  Repeated = {x}
  Standalone = {s}
  Together <- MCTogether
  Condition = {d1, d2}
  MaxTries = 3
  Requested <- MCRequested
  Outcomes <- MCOutcomes
INVARIANTS
  EvidenceBeforeCopies
  ReadersAccept
  
  LoopsClose
PROPERTIES
  ProjectionIsComplete
  KnowledgeGrows
  EveryRunSettles
CHECK_DEADLOCK FALSE
