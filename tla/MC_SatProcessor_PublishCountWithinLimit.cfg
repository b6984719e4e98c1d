CONSTANTS
  Limit <- MCLimit
  MaxBusFaults <- MCMaxBusFaults
  IoMayFail = TRUE

SPECIFICATION Spec

INVARIANT
  PublishCountWithinLimit

CHECK_DEADLOCK FALSE
