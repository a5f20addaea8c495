SPECIFICATION AggSpec
CONSTANTS
  Ids <- MCIds
  MaxUpdates = 3
  MaxEpoch = 6
  MaxPeriod = 8
  Depth = 2
INVARIANTS
  NothingForgotten
  RollOverKeepsWhatItMust
  DigestFitsProofs
  AgreesWithPartition
  
  
  AcceptedMasterKeyIsFirst
PROPERTIES
  ImplementsDirectory
CHECK_DEADLOCK FALSE
