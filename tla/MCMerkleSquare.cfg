SPECIFICATION Spec
CONSTANTS
  Keys = {a, b}
  Depth = 3
INVARIANTS
  RestoredContinues
  DigestsCommitToLog
  ExistenceProofsExact
  ExtensionProofsExact
  
  BatchedLookupsExact
SYMMETRY KeySymmetry
CHECK_DEADLOCK FALSE
