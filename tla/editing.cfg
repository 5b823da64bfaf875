SPECIFICATION Spec
CONSTANTS
  RowFields = {"name"}
  OtherFields = {"week"}
  Values = {0, 1, 2}
  Stored <- Trimmed
  Initial <- AllZero
  MaxAsked = 3
  MaxSaves = 2
INVARIANTS TypeOK NothingStaysDropped
PROPERTIES SavesOnlyEdits EditsSurvive NoticeIsTrue
CHECK_DEADLOCK FALSE
