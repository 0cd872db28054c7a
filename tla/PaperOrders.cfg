SPECIFICATION LiveSpec
CONSTANTS
    Quantities <- MCQuantities
    Initial = 1
    Earlier = 1
    Timeout = 2
    LastDay = 1
INVARIANTS PositionBounded UnseenFillsOnly
PROPERTIES  RunEnds
CHECK_DEADLOCK FALSE
