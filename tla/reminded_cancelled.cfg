SPECIFICATION FairSpec
CONSTANTS
  reminder = reminder
  moved = moved
  cancelled = cancelled
  staff = staff
  Bookings = {1}
  Messages = {reminder, moved, cancelled, staff}
  Kind <- MCKind
  About <- MCAbout
  Workers = {1}
  Turn = 1
  RemindAhead = 1
  Lease = 2
  Patience = 1
  Backoff <- MCBackoff
  RetryAfter = {1}
  MaxAttempts = 2
  Batch = 1
  Starts = {2, 4}
  MaxTime = 10
  LastCall = 2
  MaxVersion = 1
  MaxFaults = 0
  MaxWaits = 0
  MaxActs = 2
PROPERTY NotRemindedOfCancelled
CHECK_DEADLOCK FALSE
