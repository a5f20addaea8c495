SPECIFICATION FairSpec
CONSTANTS
  Depth = 2
  Users = {"alice", "bob"}
  Writers = {"w1", "w2"}
  Readers = {"r1"}
  Faulty = {"w2"}
  None = None
INVARIANTS
  CheckpointsVerify
PROPERTIES
  ImplementsKeyLog
  EntriesArePublishedLookupsEnd
CHECK_DEADLOCK FALSE
