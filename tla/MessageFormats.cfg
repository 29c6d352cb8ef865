SPECIFICATION Spec
CONSTANTS
  Words <- MCWords
  Elements <- MCElements
  Objects <- MCObjects
  Chunks <- MCChunks
  MaxPieces = 3
  MaxChunks = 4
INVARIANTS
  EchoIsFaithful
  FormatsAgree
  NumbersExactOrRefused
  EscapedTextIsText
  WrittenAsRead
CHECK_DEADLOCK FALSE
