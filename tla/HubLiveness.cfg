SPECIFICATION ReadingPeersSpec
CONSTANTS
  Conns = {"reverse-universal"}
  Reverse <- MCReverse
  CanSend <- MCCanSend
  CanReceive <- MCCanReceive
  None = None
  SockCap = 1
  NumEvents = 2
  MaxReq = 1
PROPERTIES
  RequestAnswered
  ShutdownEnds
  HangupReleases
CHECK_DEADLOCK FALSE
