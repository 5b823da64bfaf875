SPECIFICATION FairSpec
CONSTANTS
  reminder = reminder
  moved = moved
  cancelled = cancelled
  staff = staff
  Bookings = {1}
  Messages = {reminder, moved, cancelled, staff}
  Kind <- MCKind
  About <- MCAbout
  Workers = {1, 2}
  Turn = 1
  RemindAhead = 1
  Lease = 2
  Patience = 1
  Backoff <- MCBackoff
  RetryAfter = {1}
  MaxAttempts = 2
  Batch = 1
  Starts = {2, 4}
  MaxTime = 10
  LastCall = 2
  MaxVersion = 1
  MaxFaults = 1
  MaxWaits = 1
  MaxActs = 2
INVARIANTS TypeOK SentMeansDelivered NoReminderEarly TwiceOnlyAfterFault
PROPERTY QueueDrains
CHECK_DEADLOCK FALSE
