SPECIFICATION Spec
CONSTANTS
  Tables = {1, 2}
  LastDay = 0
  Midnight <- OneMidnight
  Jump <- Steady
  FirstOpen = 1
  LastClose = 4
  Ids = {1, 2}
  Guests = {}
  Parties = {1, 2}
  InitialConfig <- SeatingConfig
  Drafts <- ShrinkingDrafts
  MaxTime = 3
  MaxWait = 0
INVARIANT NoStrandedOrphan
CONSTRAINT InOrder
