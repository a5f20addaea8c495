SPECIFICATION ChronSpec
CONSTANTS
  a = a
  b = b
  Values = {a, b}
  MaxLeaves = 8
INVARIANTS
  RootIsMerkleTreeHash
  ConsistencyProofsExact
CHECK_DEADLOCK FALSE
