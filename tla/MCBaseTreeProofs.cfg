SPECIFICATION Spec
CONSTANTS
  Keys <- MCKeys
  MaxInserts = 4
  MaxEpoch = 2
INVARIANTS
  MembershipProofsVerify
CHECK_DEADLOCK FALSE
