SPECIFICATION FairSpec
CONSTANTS
  RegMod = 3
  MAX_CONN_ATTEMPS = 2
  NmbsOutcomes <- AnyOutcome
  Spurious = TRUE
  OtherWriters = TRUE
CHECK_DEADLOCK FALSE
INVARIANTS TypeOK AttempsLeft MutexHeld ConnectsOnlyWhenDown
 
