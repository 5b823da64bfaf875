SPECIFICATION Spec
CONSTANTS
  LastUpdate = 1
  Kind <- MCKind
  LastId = 1
  Places = 2
  LastProcess = 2
  AnswerRetries = 1
  KeptFor = 1
  Remembered = 1
  SweepEvery = 2
  QuietFor = 4
  Patience = 1
  MaxTime = 2
  MaxFaults = 0
INVARIANT AtMostOnce
CHECK_DEADLOCK FALSE
