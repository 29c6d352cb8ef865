SPECIFICATION Spec
CONSTANTS
  Conns = {"forward-event", "reverse-universal"}
  Reverse <- MCReverse
  CanSend <- MCCanSend
  CanReceive <- MCCanReceive
  None = None
  SockCap = 1
  NumEvents = 2
  MaxReq = 2
INVARIANTS
  TypeOK
  WriteExclusion
  RegistryExact
  Delivered
  RecipientsRegistered
  HubInv
  RolesKept
PROPERTIES
  EventsGapFree
  RepliesInOrder
  FanoutSpec
CHECK_DEADLOCK FALSE
