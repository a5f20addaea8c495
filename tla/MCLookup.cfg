SPECIFICATION LookupSpec
CONSTANTS
  None = None
  Ids <- MCIds
  MaxUpdates = 2
  MaxEpoch = 2
  MaxPeriod = 4
INVARIANTS
  AcceptedWasPublished
  AcceptedIsFromNewestSet
  
  PollsVerifyInFirstPeriod
CONSTRAINT OneLookup
CHECK_DEADLOCK FALSE
