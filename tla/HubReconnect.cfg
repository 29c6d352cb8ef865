SPECIFICATION FairSpec
CONSTANTS
  Conns = {"reverse-event"}
  Reverse <- MCReverse
  CanSend <- MCCanSend
  CanReceive <- MCCanReceive
  None = None
  SockCap = 1
  NumEvents = 2
  MaxReq = 1
PROPERTIES
  AutoReconnect
CHECK_DEADLOCK FALSE
