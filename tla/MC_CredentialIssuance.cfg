CONSTANTS
  Files <- MCFiles
  Times <- MCTimes
  TimeBits <- MCTimeBits
  LibMayFail = TRUE
SPECIFICATION Spec
INVARIANTS
  TypeOK
  NoDoubleFree
  NoUseAfterFree
  IssuedTokenUnexpired
  IssuerLeakFree
  KeyErasedWhenIssued
PROPERTIES
  TokenHandedOver
CHECK_DEADLOCK FALSE
