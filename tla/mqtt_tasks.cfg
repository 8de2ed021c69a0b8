SPECIFICATION FairSpec
CONSTANTS
  Threads <- TwoThreads
  Calls <- TaskCalls
  PubQos <- Qos0
  InQos <- Qos0
  MAX_PACKET_ID = 1
  MaxOut = 1
  MaxIn = 1
 
PROPERTY LossDetected
