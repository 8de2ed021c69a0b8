SPECIFICATION Spec
CONSTANTS
  MaxFd = 5
  MAX_CONN_ATTEMPS = 2
  Faults <- AllFaults
CHECK_DEADLOCK FALSE
INVARIANTS TypeOK UpMeansSslLive CtxReleasedOnce
