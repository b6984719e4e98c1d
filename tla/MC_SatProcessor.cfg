CONSTANTS
  Limit <- MCLimit
  MaxBusFaults <- MCMaxBusFaults
  IoMayFail = TRUE

SPECIFICATION Spec

INVARIANTS
  TypeOK
  SequenceIdsGapFree

PROPERTIES
  Termination

CHECK_DEADLOCK FALSE
