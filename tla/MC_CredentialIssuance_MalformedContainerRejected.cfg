CONSTANTS
  Files <- MCFiles
  Times <- MCTimes
  TimeBits <- MCTimeBits
  LibMayFail = FALSE
SPECIFICATION Spec
INVARIANT
  MalformedContainerRejected
CHECK_DEADLOCK FALSE
