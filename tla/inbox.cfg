SPECIFICATION FairSpec
CONSTANTS
  LastUpdate = 2
  Kind <- MCKind
  LastId = 2
  Places = 2
  LastProcess = 2
  AnswerRetries = 1
  KeptFor = 1
  Remembered = 1
  SweepEvery = 2
  QuietFor = 4
  Patience = 1
  MaxTime = 4
  MaxFaults = 1
ACTION_CONSTRAINT Eventful
INVARIANTS TypeOK OnceWhileRemembered ButtonUnlessMarked
CHECK_DEADLOCK FALSE
PROPERTY KeepsMailbox NoneBlocks
