CONSTANTS
  Files <- MCFiles
  Times <- MCTimes
  TimeBits <- MCTimeBits
  LibMayFail = FALSE
SPECIFICATION Spec
INVARIANT
  SecretNeverLoggedAndErased
CHECK_DEADLOCK FALSE
