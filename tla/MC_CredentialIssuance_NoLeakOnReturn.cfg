CONSTANTS
  Files <- MCFiles
  Times <- MCTimes
  TimeBits <- MCTimeBits
  LibMayFail = FALSE
SPECIFICATION Spec
INVARIANT
  NoLeakOnReturn
CHECK_DEADLOCK FALSE
