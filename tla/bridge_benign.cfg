SPECIFICATION FairSpec
CONSTANTS
  RegMod = 3
  MAX_CONN_ATTEMPS = 2
  NmbsOutcomes <- NoReadException
  Spurious = FALSE
  OtherWriters = FALSE
CHECK_DEADLOCK FALSE
INVARIANTS TakeIsFresh PublishedWasRead
PROPERTIES OnlyIncrements MailboxSpec ModbusNotBlocked
