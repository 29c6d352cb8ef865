SPECIFICATION FairSpec
CONSTANTS
  Friends = {}
  Groups = {g}
  Workers = {}
  None = None
  Buffer = 2
  MaxSeq = 1
  MaxRequests = 2
INVARIANTS
  EventsAccounted
PROPERTIES
  EmittedIsTold
  RequestFlagsSpec
CHECK_DEADLOCK FALSE
