SPECIFICATION Spec
CONSTANTS
  Tables = {1, 2}
  LastDay = 0
  Midnight <- OneMidnight
  Jump <- Spring
  FirstOpen = 1
  LastClose = 4
  Ids = {1, 2}
  Guests = {}
  Parties = {1, 2}
  InitialConfig <- SeatingConfig
  Drafts <- SettingDrafts
  MaxTime = 3
  MaxWait = 1
INVARIANTS TypeOK NoDoubleBooking SeatsAreSound NoStrandedOrphan
PROPERTIES HistoryStands SavesStrandNobody WindowsWithinHours
CONSTRAINT OneClosed
VIEW WithoutCancelled
