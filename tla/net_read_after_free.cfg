SPECIFICATION Spec
CONSTANTS
  MaxFd = 5
  MAX_CONN_ATTEMPS = 2
  Faults <- LateFaults
CHECK_DEADLOCK FALSE
INVARIANT NoReadAfterFree
