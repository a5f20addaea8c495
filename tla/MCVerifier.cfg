SPECIFICATION FairSpec
CONSTANTS
  Depth = 3
  Users = {"alice", "bob"}
  Watched = {"alice"}
  Sought = {"alice"}
  Logs <- SomeLogs
  EpochSizes = {2, 6}

  
  
PROPERTIES
  KeysAreProvenAgain
CHECK_DEADLOCK FALSE
