SPECIFICATION Spec
CONSTANTS
  Keys <- MCKeys
  MaxInserts = 4
  MaxEpoch = 2
INVARIANTS
  ProofsNeverPanic
  SoundTreeProofsVerify
  PlainTreeIsCanonical
  PlainProofsExact
  FastCopyIsIndependent
  UndisturbedTreeIsThePlainTree

  
CHECK_DEADLOCK FALSE
