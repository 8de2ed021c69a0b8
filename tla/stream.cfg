SPECIFICATION FairSpec
CONSTANTS
  Radix = 4
  Requests <- MCRequests
  Pushes <- MCPushes
  Codes <- MCCodes
  MaxSent = 3
  MaxPushed = 1
  BufSize = 21
  ReadBufSize = 20
  PeerBufSize = 20
  Pieces = {3}
CHECK_DEADLOCK FALSE
INVARIANTS
  WithinBuffers
  RequestsIntact
  AnswersIntact
  RoundTrip
  RoomAsked

  
