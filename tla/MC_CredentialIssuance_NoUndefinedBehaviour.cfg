CONSTANTS
  Files <- MCFiles
  Times <- MCTimes
  TimeBits <- MCTimeBits
  LibMayFail = TRUE
SPECIFICATION Spec
INVARIANT
  NoUndefinedBehaviour
CHECK_DEADLOCK FALSE
