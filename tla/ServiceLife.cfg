SPECIFICATION FairSpec
CONSTANTS
  Files <- MCFiles
  UIN = 1
  Nudges = {n1, n2}
  Buffer = 1
  None = None
INVARIANTS
  TypeOK
  IdentityConsistent
  ServedWhenReady
  OnlineUnlessEnding
  SelfNudgeRecognised
  OpenedIsClosed
  ReverseStarted
PROPERTIES
  SignalEnds
  ListenFailureEnds
  LifecycleSpec
CHECK_DEADLOCK FALSE
