SPECIFICATION ReadingPeersSpec
CONSTANTS
  Conns = {"reverse-event", "forward-api"}
  Reverse <- MCReverse
  CanSend <- MCCanSend
  CanReceive <- MCCanReceive
  None = None
  SockCap = 1
  NumEvents = 1
  MaxReq = 0
PROPERTIES
  BroadcastEnds
  AutoReconnect
CHECK_DEADLOCK FALSE
