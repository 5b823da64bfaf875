SPECIFICATION Spec
CONSTANTS
  Tables = {1, 2}
  LastDay = 1
  Midnight <- TwoMidnights
  Jump <- Autumn
  FirstOpen = 1
  LastClose = 3
  Ids = {1, 2, 3}
  Guests = {g1}
  Parties = {1}
  InitialConfig <- HoldingConfig
  Drafts = {}
  MaxTime = 1
  MaxWait = 1
INVARIANTS NoDoubleBooking NoStrandedOrphan OneEveningPerGuest OnePlanPerGuest
PROPERTY RebookingKeepsItsWord
CONSTRAINT PlansOrGuest
VIEW WithoutMessages
