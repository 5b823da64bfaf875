SPECIFICATION Spec
CONSTANTS
  Tables = {1}
  LastDay = 0
  Midnight <- OneMidnight
  Jump <- Spring
  FirstOpen = 1
  LastClose = 5
  Ids = {1, 2}
  Guests = {g1}
  Parties = {1, 2}
  InitialConfig <- MessageConfig
  Drafts = {}
  MaxTime = 2
  MaxWait = 0
INVARIANT MessagesTellTheTruth
CONSTRAINT GuestsUnblocked
