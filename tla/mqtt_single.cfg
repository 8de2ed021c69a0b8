SPECIFICATION Spec
CONSTANTS
  Threads <- OneThread
  Calls <- AllCalls
  PubQos <- AckedQos
  InQos <- AckedOrOversize
  MAX_PACKET_ID = 2
  MaxOut = 1
  MaxIn = 2
INVARIANT TypeOK
INVARIANT NoProtocolError
INVARIANT AckReachesWaiter
INVARIANT AckMatches
INVARIANT PingTracked
INVARIANT NoMessageDropped
