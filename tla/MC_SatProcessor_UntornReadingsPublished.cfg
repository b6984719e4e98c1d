CONSTANTS
  Limit <- MCLimit
  MaxBusFaults <- MCMaxBusFaults
  IoMayFail = TRUE

SPECIFICATION Spec

INVARIANT
  UntornReadingsPublished

CHECK_DEADLOCK FALSE
