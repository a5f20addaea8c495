SPECIFICATION Spec
CONSTANTS
  Ids <- MCIds
  MaxUpdates = 3
  MaxEpoch = 4
  MaxPeriod = 5
INVARIANTS
  TwoPeriodsMoveToQueryCopy
CHECK_DEADLOCK FALSE
