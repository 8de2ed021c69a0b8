SPECIFICATION Spec
CONSTANTS
  Threads <- TwoThreads
  Calls <- TaskCalls
  PubQos <- Qos0
  InQos <- Qos0
  MAX_PACKET_ID = 2
  MaxOut = 1
  MaxIn = 2
INVARIANT AckReachesWaiter
