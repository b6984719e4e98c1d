CONSTANTS
  MaxPublishes <- MCMaxPublishes
  LibMayFail = TRUE

SPECIFICATION Spec

INVARIANT
  ClaimVerifiedBeforeUse

CHECK_DEADLOCK FALSE
