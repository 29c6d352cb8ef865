SPECIFICATION Spec
CONSTANTS
  Friends = {f}
  Groups = {g}
  Workers = {w1}
  None = None
  Buffer = 1
  MaxSeq = 1
  MaxRequests = 0
INVARIANTS
  NeverAnother
CHECK_DEADLOCK FALSE
