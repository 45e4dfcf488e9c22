SPECIFICATION FairUnitSpec
CONSTANTS
  Config <- MCConfig
  Lower <- MCLower
  Valid <- MCValid
  ByHand <- MCByHand
  MaxFailure = 3
  MaxOp = 3
INVARIANT UriIsKept
PROPERTY StartsAndProvisions
CHECK_DEADLOCK FALSE
