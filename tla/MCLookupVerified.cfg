SPECIFICATION LookupSpec
CONSTANTS
  None = None
  Ids <- MCIds
  MaxUpdates = 1
  MaxEpoch = 2
  MaxPeriod = 3
INVARIANT CheckpointsAreVerified
CONSTRAINT OneLookup
CHECK_DEADLOCK FALSE
