SPECIFICATION FairSpec
CONSTANTS
  Conns = {"forward-universal", "forward-api"}
  Reverse <- MCReverse
  CanSend <- MCCanSend
  CanReceive <- MCCanReceive
  None = None
  SockCap = 1
  NumEvents = 1
  MaxReq = 1
PROPERTIES
  StuckBroadcastHasCause
CHECK_DEADLOCK FALSE
