SPECIFICATION Spec
CONSTANTS
  Friends = {f}
  Groups = {g}
  Workers = {w1}
  None = None
  Buffer = 1
  MaxSeq = 1
  MaxRequests = 1
INVARIANTS
  TypeOK
  ToldResolves
  
  ActsOnMeant
CHECK_DEADLOCK FALSE
