--------------------------- MODULE EveningProofs ---------------------------
(***************************************************************************)
(* What the room does with an evening, for every value of its constants:   *)
(*                                                                         *)
(*  - the windows it gives lie within the hours, also on nights when the   *)
(*    clocks jump; a save strands nobody outside them; and what is over is *)
(*    not touched;                                                         *)
(*  - whoever has a table sits at one that is in the room, open and large  *)
(*    enough;                                                              *)
(*  - nobody is without a table next to one they could have, as long as no *)
(*    save takes seats from a table.                                       *)
(*                                                                         *)
(* The proofs rest on two facts about every operation of the store.  First *)
(* it writes its own rows, then reconciliation changes at most the tables  *)
(* of rows that had not finished when the handler read its clock.  And     *)
(* reconciling an evening settles it and its neighbours, and leaves every  *)
(* other evening as it was.                                                *)
(***************************************************************************)
EXTENDS RoomProofs

\* The same row, at this table or another.
SameButTable(a, b) ==
  /\ b.window = a.window /\ b.service_day = a.service_day
  /\ b.status = a.status /\ b.released_at = a.released_at
  /\ b.user = a.user /\ b.party_size = a.party_size

\* What reconciliation may do to the booking table.
Reconciles(old, new, now) ==
  \A i \in Ids : SameButTable(old[i], new[i]) /\ (HasFinished(old[i], now) => new[i] = old[i])

-----------------------------------------------------------------------------
(***************************************************************************)
(* Reconciliation.                                                         *)
(***************************************************************************)

\* A row at another table has started, finished and been held as before.
LEMMA SameHeld ==
  ASSUME NEW a, NEW b, SameButTable(a, b), NEW now
  PROVE  /\ IsLive(b) <=> IsLive(a)
         /\ HasFinished(b, now) <=> HasFinished(a, now)
         /\ HasStarted(b, now) <=> HasStarted(a, now)
         /\ Rebooking(b, now) = Rebooking(a, now)
BY DEF SameButTable, IsLive, HasFinished, HasStarted, Occupies, HeldUntil, Rebooking

LEMMA ReseatingReconciles ==
  ASSUME NEW book \in [Ids -> Row], NEW loaded \in SUBSET Ids,
         NEW tables, NEW closed, NEW now,
         NEW seat \in Reseatings([i \in loaded |-> book[i]], tables, closed, now)
  PROVE  Reconciles(book, Reseated(book, seat, DOMAIN seat), now)
<1> DEFINE who == Candidates([i \in loaded |-> book[i]], tables, closed, now)
           new == Reseated(book, seat, DOMAIN seat)
<1>1. seat \in [who -> Seats]
  BY DEF Reseatings
<1>2. who \subseteq Ids /\ \A i \in who : ~HasFinished(book[i], now)
  BY DEF Candidates
<1> HIDE DEF who
<1>3. ASSUME NEW i \in Ids
      PROVE  SameButTable(book[i], new[i]) /\ (HasFinished(book[i], now) => new[i] = book[i])
  <2>1. CASE i \in who
    <3>1. new[i] = [book[i] EXCEPT !.table = seat[i]] /\ book[i] \in Row
      BY <2>1, <1>1 DEF Reseated
    <3>2. SameButTable(book[i], new[i])
      BY <3>1 DEF Row, SameButTable
    <3> QED
      BY <3>2, <2>1, <1>2
  <2>2. CASE i \notin who
    BY <2>2, <1>1 DEF Reseated, SameButTable
  <2> QED
    BY <2>1, <2>2
<1> QED
  BY <1>3 DEF Reconciles

LEMMA ShiftReconciles ==
  ASSUME NEW book \in [Ids -> Row], NEW day, NEW tables, NEW closed, NEW now,
         NEW new \in ReconciledShift(book, day, tables, closed, now)
  PROVE  Reconciles(book, new, now)
<1> DEFINE loaded == {j \in Ids : IsLive(book[j]) /\ book[j].service_day \in Neighbours(day)}
<1>1. PICK seat \in Reseatings([i \in loaded |-> book[i]], tables, BlocksAround(closed, day), now) :
        new = Reseated(book, seat, DOMAIN seat)
  BY DEF ReconciledShift, Around
<1>2. loaded \in SUBSET Ids
  OBVIOUS
<1> HIDE DEF loaded
<1> QED
  BY <1>1, <1>2, ReseatingReconciles

LEMMA SaveReconciles ==
  ASSUME bookings \in [Ids -> Row], NEW draft, NEW now, SaveSettings(draft, now)
  PROVE  Reconciles(bookings, bookings', now)
<1> DEFINE cfg == Resolve(draft, config)
           loaded == {j \in Ids : IsLive(bookings[j]) /\ now < bookings[j].window.end}
           closed == {k \in blocks : CurrentServiceDay(cfg, now) - 1 <= k[2]}
<1>1. PICK seat \in Reseatings([i \in loaded |-> bookings[i]], cfg.tables, closed, now) :
        bookings' = Reseated(bookings, seat, DOMAIN seat)
  BY DEF SaveSettings, SavedRooms, ReconciledFrom, Unfinished
<1>2. loaded \in SUBSET Ids
  OBVIOUS
<1> HIDE DEF loaded, closed, cfg
<1> QED
  BY <1>1, <1>2, ReseatingReconciles

LEMMA ReconcilingTwice ==
  ASSUME NEW a, NEW b, NEW c, NEW now, Reconciles(a, b, now), Reconciles(b, c, now)
  PROVE  Reconciles(a, c, now)
<1>1. ASSUME NEW i \in Ids
      PROVE  SameButTable(a[i], c[i]) /\ (HasFinished(a[i], now) => c[i] = a[i])
  <2>1. SameButTable(a[i], b[i]) /\ SameButTable(b[i], c[i])
    BY DEF Reconciles
  <2>2. HasFinished(a[i], now) => HasFinished(b[i], now)
    BY <2>1, SameHeld
  <2> QED
    BY <2>1, <2>2 DEF Reconciles, SameButTable
<1> QED
  BY <1>1 DEF Reconciles

LEMMA ReplacingReconciles ==
  ASSUME NEW book, Orderly(book), NEW evenings, NEW now,
         NEW new \in AfterReplacing(book, evenings, now)
  PROVE  Reconciles(book, new, now)
<1> DEFINE S == [d \in 0 .. LastDay + 1 |->
                   {b \in [Ids -> Row] : Orderly(b) /\ Reconciles(book, b, now)}]
<1>1. LastDay \in Nat /\ book \in S[0]
  BY CalendarAssumption DEF Orderly, Reconciles, SameButTable
<1>2. ASSUME NEW d \in Days, NEW b \in S[d]
      PROVE  /\ b \in S[d + 1]
             /\ ReconciledShift(b, d, config.tables, blocks, now) \subseteq S[d + 1]
  <2>1. d \in 0 .. LastDay + 1 /\ d + 1 \in 0 .. LastDay + 1
    BY <1>1 DEF Days
  <2>2. Orderly(b) /\ Reconciles(book, b, now) /\ b \in [Ids -> Row]
    BY <2>1
  <2>3. ASSUME NEW c \in ReconciledShift(b, d, config.tables, blocks, now)
        PROVE  Orderly(c) /\ Reconciles(book, c, now) /\ c \in [Ids -> Row]
    <3>1. Orderly(c) /\ Reconciles(b, c, now)
      BY <2>2, ReconciledShiftKeepsOrder, ShiftReconciles
    <3> QED
      BY <3>1, <2>2, ReconcilingTwice DEF Orderly
  <2> QED
    BY <2>1, <2>2, <2>3
<1> HIDE DEF S
<1>3. new \in S[LastDay + 1]
  BY <1>1, <1>2, EveningByEvening
<1> QED
  BY <1>1, <1>3 DEF S

-----------------------------------------------------------------------------
(***************************************************************************)
(* Windows and hours.                                                      *)
(***************************************************************************)

\* An arrival of the grid and its sitting are within the hours.
LEMMA GridWithinHours ==
  ASSUME config \in ConfigType, HoursInForce, NEW b, NEW minutes,
         b.service_day \in Days, minutes \in Arrivals(config, b.service_day),
         b.window = WindowOf(config, b.service_day, minutes)
  PROVE  ~OutsideHours(b, config)
<1> DEFINE day == b.service_day
           open == config.week[day].open_minutes
           close == config.week[day].close_minutes
           turn == config.turn_minutes
           start == FirstPass(day, minutes)
<1>1. /\ open \in Nat /\ close \in Nat /\ turn \in Nat \ {0}
      /\ minutes \in Nat /\ Happens(day, minutes) /\ ~config.week[day].closed
      /\ open <= minutes /\ minutes <= close - turn /\ minutes + turn <= LastClose
  BY HoursTypes
<1>2. b.window.start = start /\ b.window.end = start + turn
  BY DEF WindowOf
<1> HIDE DEF day, open, close, turn, start
<1>3. start = ResolveBoundary(day, minutes) /\ day \in Days
  BY <1>1, ArrivalsInShift DEF start, day
<1>4. start \in Nat /\ ResolveBoundary(day, open) <= start
  BY <1>1, <1>3, BoundariesInOrder
<1>5. /\ close - turn \in Nat /\ start <= ResolveBoundary(day, close - turn)
      /\ ResolveBoundary(day, close - turn) \in Nat
  BY <1>1, <1>3, BoundariesInOrder
<1>6. close <= LastClose
  BY HoursTypes DEF close, day
<1>7. Closing(config, day) \in Nat
  BY <1>1, <1>3, <1>6, ClosingInShift DEF Closing, close
<1>8. b.window.end - b.window.start = turn /\ turn <= close
  BY <1>1, <1>2, <1>4
<1>9. LatestEnd(config, day, turn) =
        IF Closing(config, day) < ResolveBoundary(day, close - turn) + turn
        THEN ResolveBoundary(day, close - turn) + turn ELSE Closing(config, day)
  BY <1>8 DEF LatestEnd, close
<1>10. ~(LatestEnd(config, day, turn) < b.window.end)
  BY <1>1, <1>2, <1>4, <1>5, <1>7, <1>9
<1>11. ~(b.window.start < Opening(config, day))
  <2>1. Opening(config, day) = ResolveBoundary(day, open)
    BY DEF Opening, open
  <2>2. ResolveBoundary(day, open) \in Nat
    BY <1>1, <1>3, BoundariesInOrder
  <2> QED
    BY <2>1, <2>2, <1>2, <1>4
<1> QED
  BY <1>1, <1>8, <1>10, <1>11 DEF OutsideHours, day

\* A walk-in is cut at closing.
LEMMA WalkInWithinHours ==
  ASSUME config \in ConfigType, HoursInForce, NEW b, NEW now \in Nat,
         b.service_day \in Days, IsOpen(config, b.service_day, now),
         b.window = WalkInWindow(config, b.service_day, now)
  PROVE  ~OutsideHours(b, config)
<1> DEFINE day == b.service_day
           close == config.week[day].close_minutes
           minutes == b.window.end - b.window.start
<1>1. /\ close \in Nat /\ close <= LastClose
      /\ config.week[day].open_minutes \in Nat /\ config.turn_minutes \in Nat \ {0}
  BY HoursTypes
<1>2. ~config.week[day].closed /\ Opening(config, day) <= now /\ now < Closing(config, day)
  BY DEF IsOpen
<1>3. Closing(config, day) \in Nat
  BY <1>1, ClosingInShift DEF Closing
<1>4. b.window.start = now /\ b.window.end \in Nat /\ b.window.end <= Closing(config, day)
  BY <1>1, <1>3 DEF WalkInWindow
<1>5. Opening(config, day) \in Nat
  BY <1>1, BoundariesInOrder DEF Opening
<1>6. minutes \in Int
  BY <1>4
<1> HIDE DEF day, close, minutes
<1>7. ~(LatestEnd(config, day, minutes) < b.window.end)
  <2> DEFINE sitting == ResolveBoundary(day, close - minutes) + minutes
  <2>1. LatestEnd(config, day, minutes) =
          IF minutes <= close /\ Closing(config, day) < sitting
          THEN sitting ELSE Closing(config, day)
    BY DEF LatestEnd, close
  <2>2. minutes <= close => sitting \in Int
    <3>1. minutes <= close => close - minutes \in Nat
      BY <1>1, <1>6 DEF close
    <3>2. day \in Days
      BY DEF day
    <3> QED
      BY <3>1, <3>2, <1>6, BoundariesInOrder
  <2> HIDE DEF sitting
  <2> QED
    BY <2>1, <2>2, <1>3, <1>4
<1>8. ~(b.window.start < Opening(config, day))
  BY <1>2, <1>4, <1>5
<1> QED
  BY <1>2, <1>7, <1>8 DEF OutsideHours, day, minutes

-----------------------------------------------------------------------------
(***************************************************************************)
(* What an operation writes into one row, before reconciliation.           *)
(***************************************************************************)
RowStep(a, w, now) ==
  \/ w = a
  \/ a.status = "absent" /\ ~OutsideHours(w, config)
  \/ w.window = a.window /\ (w.status # a.status \/ w.released_at # a.released_at)
  \/ ~HasFinished(a, now) /\ (w.window = a.window \/ ~OutsideHours(w, config))

\* A step of the room: it writes rows, and reconciles what it wrote; the
\* settings change in a step that only reconciles.
RoomStep(written, now) ==
  /\ \A i \in Ids : RowStep(bookings[i], written[i], now)
  /\ Reconciles(written, bookings', now)
  /\ config' = config \/ written = bookings

LEMMA Unmoved ==
  ASSUME NEW now, bookings' = bookings
  PROVE  RoomStep(bookings, now)
BY DEF RoomStep, RowStep, Reconciles, SameButTable

LEMMA CreateBookingSteps ==
  ASSUME IInv, NEW id \in Ids, NEW user \in Guests \cup {NoGuest}, NEW day \in Days,
         NEW minutes, NEW party \in Nat, NEW chosen, NEW now \in Nat,
         CreateBooking(id, user, day, minutes, party, chosen, now)
  PROVE  \E written : RoomStep(written, now)
<1> DEFINE mine == Running(bookings, user, now)
           replacing == ReplacedOn(mine, bookings, day, now)
           window == WindowOf(config, day, minutes)
<1>1. PICK table : BookingWrites(id, user, day, minutes, party, now, table)
  BY BookingWritten
<1> DEFINE row == NewRow(table, day, window, party, user, "confirmed")
           written == Taken(id, row, replacing)
<1>2. /\ Orderly(written)
      /\ bookings' \in AfterReplacing(written, {bookings[i].service_day : i \in replacing}, now)
  BY <1>1 DEF BookingWrites
<1>3. bookings \in [Ids -> Row] /\ config \in ConfigType /\ HoursInForce
  BY InvariantParts DEF Typed
<1>4. row.window = window /\ row.service_day = day
  BY DEF NewRow
<1>5. /\ bookings[id].status = "absent" /\ minutes \in Arrivals(config, day)
      /\ config' = config
  BY DEF CreateBooking
<1>6. ~OutsideHours(row, config)
  <2> HIDE DEF row
  <2> QED
    BY <1>3, <1>4, <1>5, GridWithinHours
<1>7. \A i \in replacing : ~HasFinished(bookings[i], now)
  BY DEF ReplacedOn, Running
<1>8. ASSUME NEW i \in Ids
      PROVE  RowStep(bookings[i], written[i], now)
  <2>1. written[i] = IF i = id THEN row
                     ELSE IF i \in replacing THEN [bookings[i] EXCEPT !.status = "cancelled"]
                     ELSE bookings[i]
    BY DEF Taken
  <2>2. [bookings[i] EXCEPT !.status = "cancelled"].window = bookings[i].window
    BY <1>3 DEF Row
  <2> HIDE DEF row, written, replacing
  <2> QED
    BY <2>1, <2>2, <1>5, <1>6, <1>7 DEF RowStep
<1>9. Reconciles(written, bookings', now)
  <2> HIDE DEF written
  <2> QED
    BY <1>2, ReplacingReconciles
<1> HIDE DEF written
<1> QED
  BY <1>5, <1>8, <1>9 DEF RoomStep

LEMMA SetAttendanceSteps ==
  ASSUME IInv, NEW i \in Ids, NEW attendance \in Statuses \ {"absent"}, NEW now \in Nat,
         SetAttendance(i, attendance, now)
  PROVE  \E written : RoomStep(written, now)
<1> DEFINE b == bookings[i]
           released == ReleasedAt(attendance, b.window, now)
           changed == [b EXCEPT !.status = attendance, !.released_at = released]
           written == [bookings EXCEPT ![i] = changed]
<1>1. /\ b \in Row /\ Orderly(written) /\ config' = config
      /\ bookings' \in ReconciledShift(written, changed.service_day, config.tables, blocks, now)
  BY AttendanceWritten DEF AttendanceWrites
<1>2. bookings \in [Ids -> Row]
  BY InvariantParts DEF Typed
<1> HIDE DEF released
<1>3. /\ changed.window = b.window
      /\ changed = b \/ changed.status # b.status \/ changed.released_at # b.released_at
  BY <1>1 DEF Row
<1>4. ASSUME NEW j \in Ids
      PROVE  RowStep(bookings[j], written[j], now)
  <2>1. written[j] = IF j = i THEN changed ELSE bookings[j]
    BY <1>2
  <2> HIDE DEF changed, written
  <2> QED
    BY <2>1, <1>3 DEF RowStep
<1>5. Reconciles(written, bookings', now)
  <2> HIDE DEF written, changed
  <2> QED
    BY <1>1, ShiftReconciles DEF Orderly
<1> HIDE DEF written
<1> QED
  BY <1>1, <1>4, <1>5 DEF RoomStep

LEMMA MoveBookingSteps ==
  ASSUME IInv, NEW i \in Ids, NEW minutes, NEW party \in Nat, NEW chosen, NEW now \in Nat,
         MoveBooking(i, minutes, party, chosen, now)
  PROVE  \E written : RoomStep(written, now)
<1> DEFINE b == bookings[i]
<1>1. PICK window, table : MoveWrites(i, minutes, party, now, window, table)
  BY MoveWritten
<1> DEFINE row == Moved(b, table, window, party)
           written == [bookings EXCEPT ![i] = row]
<1>2. /\ WindowOffered(i, minutes, window, now) /\ Orderly(written)
      /\ bookings' \in ReconciledShift(written, b.service_day, config.tables, blocks, now)
  BY <1>1 DEF MoveWrites
<1>3. /\ b \in Row /\ bookings \in [Ids -> Row] /\ config \in ConfigType /\ HoursInForce
      /\ ~HasFinished(b, now) /\ config' = config
  BY InvariantParts DEF Typed, MoveBooking, StillHeld
<1>4. row.window = window /\ row.service_day = b.service_day
  BY <1>3 DEF Moved, Row
<1>5. row.window = b.window \/ ~OutsideHours(row, config)
  <2>1. CASE window = b.window
    BY <2>1, <1>4
  <2>2. CASE window # b.window
    <3>1. /\ minutes \in Arrivals(config, b.service_day)
          /\ window = WindowOf(config, b.service_day, minutes)
      BY <2>2, <1>2 DEF WindowOffered
    <3>2. b.service_day \in Days
      BY <1>3 DEF Row
    <3> HIDE DEF row
    <3> QED
      BY <3>1, <3>2, <1>3, <1>4, GridWithinHours
  <2> QED
    BY <2>1, <2>2
<1>6. ASSUME NEW j \in Ids
      PROVE  RowStep(bookings[j], written[j], now)
  <2>1. written[j] = IF j = i THEN row ELSE bookings[j]
    BY <1>3
  <2> HIDE DEF row, written
  <2> QED
    BY <2>1, <1>3, <1>5 DEF RowStep
<1>7. Reconciles(written, bookings', now)
  <2> HIDE DEF written
  <2> QED
    BY <1>2, ShiftReconciles DEF Orderly
<1> HIDE DEF written
<1> QED
  BY <1>3, <1>6, <1>7 DEF RoomStep

LEMMA SeatWalkInSteps ==
  ASSUME IInv, NEW id \in Ids, NEW day \in Days, NEW party \in Nat, NEW chosen,
         NEW now \in Nat, SeatWalkIn(id, day, party, chosen, now)
  PROVE  RoomStep(bookings', now)
<1>1. bookings \in [Ids -> Row] /\ config \in ConfigType /\ HoursInForce
  BY InvariantParts DEF Typed
<1>2. PICK table : bookings' = [bookings EXCEPT ![id] =
        NewRow(table, day, WalkInWindow(config, day, now), party, NoGuest, "arrived")]
  BY DEF SeatWalkIn
<1> DEFINE row == NewRow(table, day, WalkInWindow(config, day, now), party, NoGuest, "arrived")
<1>3. row.window = WalkInWindow(config, day, now) /\ row.service_day = day
  BY DEF NewRow
<1>4. bookings[id].status = "absent" /\ IsOpen(config, day, now) /\ config' = config
  BY DEF SeatWalkIn
<1>5. ~OutsideHours(row, config)
  <2> HIDE DEF row
  <2> QED
    BY <1>1, <1>3, <1>4, WalkInWithinHours
<1>6. ASSUME NEW i \in Ids
      PROVE  RowStep(bookings[i], bookings'[i], now)
  <2>1. bookings'[i] = IF i = id THEN row ELSE bookings[i]
    BY <1>1, <1>2
  <2> HIDE DEF row
  <2> QED
    BY <2>1, <1>4, <1>5 DEF RowStep
<1> QED
  BY <1>4, <1>6 DEF RoomStep, Reconciles, SameButTable

LEMMA CancelLockedSteps ==
  ASSUME IInv, NEW i \in Ids, NEW noticed, NEW now \in Nat, CancelLocked(i, noticed, now)
  PROVE  \E written : RoomStep(written, now)
<1> DEFINE row == [bookings[i] EXCEPT !.status = "cancelled"]
           written == [bookings EXCEPT ![i] = row]
<1>1. bookings \in [Ids -> Row] /\ bookings[i] \in Row
  BY InvariantParts DEF Typed
<1>2. /\ ~HasFinished(bookings[i], now) /\ config' = config
      /\ bookings' \in ReconciledShift([bookings EXCEPT ![i].status = "cancelled"],
                                       bookings[i].service_day, config.tables, blocks, now)
  BY DEF CancelLocked, StillHeld
<1>3. row.window = bookings[i].window /\ row \in Row
  BY <1>1 DEF Row, Statuses
<1>4. ASSUME NEW j \in Ids
      PROVE  RowStep(bookings[j], written[j], now)
  <2>1. written[j] = IF j = i THEN row ELSE bookings[j]
    BY <1>1
  <2> HIDE DEF row, written
  <2> QED
    BY <2>1, <1>2, <1>3 DEF RowStep
<1>5. written \in [Ids -> Row]
  <2> HIDE DEF row
  <2> QED
    BY <1>1, <1>3
<1>6. Reconciles(written, bookings', now)
  <2> HIDE DEF written
  <2> QED
    BY <1>2, <1>5, ShiftReconciles DEF written
<1> HIDE DEF written
<1> QED
  BY <1>2, <1>4, <1>6 DEF RoomStep

\* The steps that write no row of their own.
LEMMA ReconcilingSteps ==
  ASSUME IInv, NEW now, Reconciles(bookings, bookings', now)
  PROVE  RoomStep(bookings, now)
BY DEF RoomStep, RowStep

LEMMA EveryStepReconciles ==
  ASSUME IInv, [Next]_vars
  PROVE  \E now \in Moments : \E written : RoomStep(written, now)
<1>1. Typed /\ clock \in Nat /\ Moments \subseteq Nat /\ bookings \in [Ids -> Row]
  BY DEF IInv, TypeOK, Typed, Moments
<1>2. Unused \subseteq Ids /\ Live \subseteq Ids /\ Parties \subseteq Nat /\ NoGuest \in {NoGuest}
  BY RoomAssumption DEF Unused, Live
<1>3. clock \in Moments
  BY <1>1, RoomAssumption DEF Moments
<1>4. CASE bookings' = bookings
  BY <1>3, <1>4, Unmoved
<1>5. CASE StaffBooks
  BY <1>1, <1>2, <1>5, CreateBookingSteps DEF StaffBooks, StaffBook
<1>6. CASE GuestBooks
  <2>1. \A g \in Guests : promise[g].day \in Days
    BY <1>1 DEF Typed
  <2> QED
    BY <2>1, <1>1, <1>2, <1>6, CreateBookingSteps DEF GuestBooks, GuestBook
<1>7. CASE WalksIn
  BY <1>1, <1>2, <1>7, SeatWalkInSteps DEF WalksIn
<1>8. CASE StaffMark
  <2>1. {"confirmed", "arrived", "no_show", "left"} \subseteq Statuses \ {"absent"}
    BY DEF Statuses
  <2> QED
    BY <2>1, <1>1, <1>2, <1>8, SetAttendanceSteps DEF StaffMark
<1>9. CASE StaffMove
  BY <1>1, <1>2, <1>9, MoveBookingSteps DEF StaffMove
<1>10. CASE StaffCancels \/ GuestCancels \/ GuestTapsReminder
  <2>1. PICK now \in Moments, i \in Live, noticed \in BOOLEAN : CancelLocked(i, noticed, now)
    BY <1>10 DEF StaffCancels, StaffCancel, GuestCancels, GuestCancel,
                 GuestTapsReminder, CancelReminded
  <2> QED
    BY <2>1, <1>1, <1>2, CancelLockedSteps
<1>11. CASE StaffReconcile
  <2>1. PICK now \in Moments, day \in Days : ReconcileShift(day, now)
    BY <1>11 DEF StaffReconcile
  <2> QED
    BY <2>1, <1>1, ShiftReconciles, ReconcilingSteps DEF ReconcileShift
<1>12. CASE StaffClose
  <2>1. PICK now \in Moments, day \in Days, asked \in SUBSET Tables : BlockTables(day, asked, now)
    BY <1>12 DEF StaffClose
  <2> QED
    BY <2>1, <1>1, ShiftReconciles, ReconcilingSteps DEF BlockTables
<1>13. CASE StaffReopen
  <2>1. PICK now \in Moments, day \in Days, asked \in SUBSET Tables : UnblockTables(day, asked, now)
    BY <1>13 DEF StaffReopen
  <2> QED
    BY <2>1, <1>1, ShiftReconciles, ReconcilingSteps DEF UnblockTables
<1>14. CASE ManagerSaves
  <2>1. PICK now \in Moments, draft \in Drafts : SaveSettings(draft, now)
    BY <1>14 DEF ManagerSaves
  <2> QED
    BY <2>1, <1>1, SaveReconciles, ReconcilingSteps
<1>15. CASE GuestReads \/ SaveIsLost \/ WorkerDelivers \/ Tick \/ UNCHANGED vars
  <2>1. bookings' = bookings
    BY <1>15 DEF GuestReads, ReadOffer, SaveIsLost, SaveSettingsLost, WorkerDelivers,
                 DeliverReminder, Tick, vars
  <2> QED
    BY <2>1, <1>4
<1> QED
  BY <1>5, <1>6, <1>7, <1>8, <1>9, <1>10, <1>11, <1>12, <1>13, <1>14, <1>15 DEF Next

-----------------------------------------------------------------------------
(***************************************************************************)
(* Time: what had finished stays finished.                                 *)
(***************************************************************************)
LEMMA FinishedForGood ==
  ASSUME NEW b \in Row, NEW now \in Int, NEW later \in Int, now <= later
  PROVE  /\ HasFinished(b, now) => HasFinished(b, later)
         /\ HasStarted(b, now) => HasStarted(b, later)
<1>1. HeldUntil(b) \in Int /\ b.window.start \in Int
  BY DEF Row, Windows, HeldUntil, NotReleased
<1> QED
  BY <1>1 DEF HasFinished, HasStarted

(***************************************************************************)
(* Every window the room gives lies within the hours it is given under,    *)
(* whatever the calendar, the jump of the clocks, the hours and the turn.  *)
(***************************************************************************)
LEMMA WindowsStep ==
  ASSUME IInv, [Next]_vars, NEW i \in Ids, bookings'[i].window # bookings[i].window
  PROVE  ~OutsideHours(bookings'[i], config')
<1>1. PICK now, written : now \in Moments /\ RoomStep(written, now)
  BY EveryStepReconciles
<1>2. /\ bookings'[i].window = written[i].window
      /\ bookings'[i].service_day = written[i].service_day
  BY <1>1 DEF RoomStep, Reconciles, SameButTable
<1>3. RowStep(bookings[i], written[i], now)
  BY <1>1 DEF RoomStep
<1>4. ~OutsideHours(written[i], config)
  BY <1>2, <1>3 DEF RowStep
<1>5. config' = config
  BY <1>1, <1>2 DEF RoomStep
<1> QED
  BY <1>2, <1>4, <1>5 DEF OutsideHours

THEOREM WindowsAreWithinHours == Spec => WindowsWithinHours
<1>1. IInv /\ [Next]_vars =>
        [\A i \in Ids : bookings'[i].window # bookings[i].window =>
             ~OutsideHours(bookings'[i], config')]_vars
  BY WindowsStep
<1> QED
  BY <1>1, InvariantHolds, PTL DEF Spec, WindowsWithinHours

(***************************************************************************)
(* What was over before any handler's clock was read is not touched, but   *)
(* for a status that staff correct.                                        *)
(***************************************************************************)
LEMMA HistoryStep ==
  ASSUME IInv, [Next]_vars, NEW i \in Ids, LongOver(i),
         bookings'[i].status = bookings[i].status,
         bookings'[i].released_at = bookings[i].released_at
  PROVE  bookings'[i] = bookings[i]
<1> DEFINE a == bookings[i]
<1>1. PICK now, written : now \in Moments /\ RoomStep(written, now)
  BY EveryStepReconciles
<1>2. a \in Row /\ clock \in Nat
  BY InvariantParts DEF Typed
<1>3. IsLive(a) /\ HasFinished(a, now)
  <2>1. now \in Int /\ clock - MaxWait \in Int /\ clock - MaxWait <= now
    BY <1>1, <1>2, RoomAssumption DEF Moments
  <2> QED
    BY <2>1, <1>2, FinishedForGood DEF LongOver
<1>4. RowStep(a, written[i], now)
  BY <1>1 DEF RoomStep
<1>5. SameButTable(written[i], bookings'[i])
  BY <1>1 DEF RoomStep, Reconciles
<1>6. written[i] = a
  BY <1>3, <1>4, <1>5 DEF RowStep, SameButTable, IsLive
<1> QED
  BY <1>1, <1>3, <1>6 DEF RoomStep, Reconciles

THEOREM HistoryIsKept == Spec => HistoryStands
<1>1. IInv /\ [Next]_vars =>
        [\A i \in Ids : LongOver(i) /\ bookings'[i].status = bookings[i].status
                        /\ bookings'[i].released_at = bookings[i].released_at
                        => bookings'[i] = bookings[i]]_vars
  BY HistoryStep
<1> QED
  BY <1>1, InvariantHolds, PTL DEF Spec, HistoryStands

(***************************************************************************)
(* A save leaves no running booking outside the hours it brings, also when *)
(* it was checked with a clock reading from before the wait for the lock.  *)
(***************************************************************************)
LEMMA SaveStep ==
  ASSUME IInv, [Next]_vars, config' # config, NEW i \in Ids, RunningNow(i)
  PROVE  ~OutsideHours(bookings[i], config')
<1> DEFINE b == bookings[i]
<1>1. PICK now \in Moments, draft \in Drafts : SaveSettings(draft, now)
  <2>1. ~(StaffBooks \/ GuestBooks)
    <3>1. \A id, user, day, minutes, party, chosen, now :
             CreateBooking(id, user, day, minutes, party, chosen, now) => config' = config
      BY DEF CreateBooking
    <3> QED
      BY <3>1 DEF StaffBooks, StaffBook, GuestBooks, GuestBook
  <2>2. ~(GuestReads \/ WalksIn \/ StaffMark \/ StaffMove)
    <3>1. \A id, day, party, chosen, now : SeatWalkIn(id, day, party, chosen, now) => config' = config
      BY DEF SeatWalkIn
    <3>2. \A j, attendance, now : SetAttendance(j, attendance, now) => config' = config
      BY DEF SetAttendance
    <3>3. \A j, minutes, party, chosen, now :
             MoveBooking(j, minutes, party, chosen, now) => config' = config
      BY DEF MoveBooking
    <3> QED
      BY <3>1, <3>2, <3>3 DEF GuestReads, ReadOffer, WalksIn, StaffMark, StaffMove
  <2>3. ~(StaffCancels \/ GuestCancels \/ GuestTapsReminder)
    BY DEF StaffCancels, StaffCancel, GuestCancels, GuestCancel, GuestTapsReminder,
           CancelReminded, CancelLocked
  <2>4. ~(StaffReconcile \/ StaffClose \/ StaffReopen)
    BY DEF StaffReconcile, ReconcileShift, StaffClose, BlockTables, StaffReopen, UnblockTables
  <2>5. ~(SaveIsLost \/ WorkerDelivers \/ Tick \/ UNCHANGED vars)
    BY DEF SaveIsLost, SaveSettingsLost, WorkerDelivers, DeliverReminder, Tick, vars
  <2> QED
    BY <2>1, <2>2, <2>3, <2>4, <2>5 DEF Next, ManagerSaves
<1>2. b \in Row /\ clock \in Nat /\ Orderly(bookings)
  BY InvariantParts DEF Typed
<1>3. now \in Nat /\ now <= clock
  BY <1>2 DEF Moments
<1>4. ~HasFinished(b, now)
  BY <1>2, <1>3, FinishedForGood DEF RunningNow
<1>5. IsLive(b) /\ now < b.window.end
  <2>1. Occupies(b) /\ ~(HeldUntil(b) <= now)
    BY <1>4 DEF HasFinished
  <2>2. InItsShift(b)
    BY <2>1, <1>2, OccupantsExist DEF Orderly, InShift
  <2>3. HeldUntil(b) <= b.window.end /\ HeldUntil(b) \in Nat /\ b.window.end \in Nat
    BY <2>2, <1>2, HeldWithinWindow DEF Held
  <2> QED
    BY <2>1, <2>3, <1>3 DEF Occupies
<1>6. /\ ScheduleConflicts(config', Unfinished(bookings, now), now) = {}
  BY <1>1 DEF SaveSettings, MaySave
<1>7. i \in DOMAIN Unfinished(bookings, now) /\ Unfinished(bookings, now)[i] = b
  BY <1>5 DEF Unfinished
<1> QED
  BY <1>4, <1>6, <1>7 DEF ScheduleConflicts

THEOREM SavesAreSafe == Spec => SavesStrandNobody
<1>1. IInv /\ [Next]_vars =>
        [config' # config => \A i \in Ids : RunningNow(i) => ~OutsideHours(bookings[i], config')]_vars
  BY SaveStep
<1> QED
  BY <1>1, InvariantHolds, PTL DEF Spec, SavesStrandNobody

-----------------------------------------------------------------------------
(***************************************************************************)
(* Seats.  An operation may leave rows of some evenings at seats that are  *)
(* not sound, or without one beside a free table; reconciling an evening   *)
(* settles it and its neighbours, and touches no other.                    *)
(***************************************************************************)
SeatSound(b, tables, closed, at) ==
  ~HasFinished(b, at) /\ b.table # NoTable => SeatingIsSound(b, tables, closed)

\* But for the evenings of these days.
SoundBut(book, days, tables, closed, at) ==
  \A i \in Ids : book[i].service_day \notin days => SeatSound(book[i], tables, closed, at)

LEMMA FreeIsSound ==
  ASSUME NEW q, NEW t \in FreeTables(q)
  PROVE  /\ t \in Tables /\ ~q.tables[t].retired /\ q.party_size <= q.tables[t].seats
         /\ <<t, q.service_day>> \notin q.blocks
         /\ FreeDuring(t, q.window, q.bookings, q.ignoring)
BY DEF FreeTables, OpenTables

\* No table has the number that stands for none.
LEMMA TablesAreNumbered == NoTable \notin Tables
BY TablesAssumption DEF NoTable

LEMMA ReseatedIsSound ==
  ASSUME NEW book \in [Ids -> Row], NEW loaded \in SUBSET Ids,
         NEW tables, NEW closed, NEW now \in Int, NEW at \in Int, now <= at,
         NEW seat \in Reseatings([k \in loaded |-> book[k]], tables, closed, now),
         NEW new, new = Reseated(book, seat, DOMAIN seat), NEW i \in loaded,
         NEW all, \A t \in Tables : <<t, book[i].service_day>> \in all
                                    => <<t, book[i].service_day>> \in closed
  PROVE  SeatSound(new[i], tables, all, at)
<1> DEFINE sub == [k \in loaded |-> book[k]]
           who == Candidates(sub, tables, closed, now)
           q == ReseatRequest(i, seat, sub, tables, closed)
<1> SUFFICES ASSUME ~HasFinished(new[i], at), new[i].table # NoTable
             PROVE  SeatingIsSound(new[i], tables, all)
  BY DEF SeatSound
<1>1. seat \in [who -> Seats] /\ i \in Ids /\ sub[i] = book[i]
  BY DEF Reseatings
<1>2. SameButTable(book[i], new[i])
  BY <1>1, ReseatingReconciles DEF Reconciles
<1>3. book[i] \in Row /\ ~HasFinished(book[i], now) /\ IsLive(book[i])
  <2>1. ~HasFinished(book[i], at)
    BY <1>2, SameHeld
  <2>2. book[i] \in Row
    BY <1>1
  <2> QED
    BY <2>1, <2>2, FinishedForGood DEF HasFinished, Occupies
<1>4. CASE i \in who
  <2>1. new[i].table = seat[i]
    BY <1>1, <1>3, <1>4 DEF Reseated, Row
  <2>2. seat[i] \in FreeTables(q)
    BY <1>1, <1>4, <2>1 DEF Reseatings, Assigned
  <2>3. /\ seat[i] \in Tables /\ ~tables[seat[i]].retired
        /\ book[i].party_size <= tables[seat[i]].seats
        /\ <<seat[i], book[i].service_day>> \notin closed
    BY <1>1, <2>2, FreeIsSound DEF ReseatRequest
  <2> QED
    BY <1>2, <2>1, <2>3 DEF SeatingIsSound, SameButTable
<1>5. CASE i \notin who
  <2>1. SeatingIsSound(book[i], tables, closed)
    BY <1>1, <1>3, <1>5 DEF Candidates
  <2>2. new[i] = book[i]
    BY <1>1, <1>5 DEF Reseated
  <2>3. book[i].table \in Tables
    BY <1>3, <2>1 DEF SeatingIsSound, Row, Seats
  <2> QED
    BY <2>1, <2>2, <2>3 DEF SeatingIsSound
<1> QED
  BY <1>4, <1>5

LEMMA ShiftSettles ==
  ASSUME NEW book \in [Ids -> Row], NEW day \in Days, NEW tables, NEW closed,
         NEW now \in Int, NEW at \in Int, now <= at,
         NEW new \in ReconciledShift(book, day, tables, closed, now), NEW i \in Ids
  PROVE  /\ book[i].service_day \in Neighbours(day) => SeatSound(new[i], tables, closed, at)
         /\ book[i].service_day \notin Neighbours(day) => new[i] = book[i]
         /\ new[i].service_day = book[i].service_day
<1> DEFINE loaded == {j \in Ids : IsLive(book[j]) /\ book[j].service_day \in Neighbours(day)}
           sub == [k \in loaded |-> book[k]]
           near == BlocksAround(closed, day)
<1>1. PICK seat \in Reseatings(sub, tables, near, now) : new = Reseated(book, seat, DOMAIN seat)
  BY DEF ReconciledShift, Around
<1>2. SameButTable(book[i], new[i])
  BY ShiftReconciles DEF Reconciles
<1>3. DOMAIN seat \subseteq loaded
  BY DEF Reseatings, Candidates
<1>4. CASE i \in loaded
  <2>1. \A t \in Tables : <<t, book[i].service_day>> \in closed
                          => <<t, book[i].service_day>> \in near
    BY <1>4 DEF BlocksAround
  <2>2. loaded \in SUBSET Ids
    OBVIOUS
  <2>3. SeatSound(new[i], tables, closed, at)
    <3> HIDE DEF loaded, near
    <3> QED
      BY <1>1, <1>4, <2>1, <2>2, ReseatedIsSound
  <2> QED
    BY <1>2, <1>4, <2>3 DEF SameButTable
<1>5. CASE i \notin loaded
  <2>1. new[i] = book[i]
    BY <1>1, <1>3, <1>5 DEF Reseated
  <2>2. book[i].service_day \in Neighbours(day) => ~IsLive(book[i])
    BY <1>5
  <2> QED
    BY <2>1, <2>2 DEF SeatSound, HasFinished, Occupies
<1> QED
  BY <1>4, <1>5

LEMMA ShiftMakesSound ==
  ASSUME NEW book \in [Ids -> Row], NEW day \in Days, NEW tables, NEW closed,
         NEW now \in Int, NEW at \in Int, now <= at,
         SoundBut(book, {day}, tables, closed, at),
         NEW new \in ReconciledShift(book, day, tables, closed, now)
  PROVE  SoundBut(new, {}, tables, closed, at)
<1> SUFFICES ASSUME NEW i \in Ids
             PROVE  SeatSound(new[i], tables, closed, at)
  BY DEF SoundBut
<1>1. /\ book[i].service_day \in Neighbours(day) => SeatSound(new[i], tables, closed, at)
      /\ book[i].service_day \notin Neighbours(day) => new[i] = book[i]
  BY ShiftSettles
<1>2. day \in Neighbours(day)
  BY ClockTypes DEF Neighbours
<1> QED
  BY <1>1, <1>2 DEF SoundBut

LEMMA SoundRows == SeatsAreSound <=> SoundBut(bookings, {}, config.tables, blocks, clock)
BY DEF SeatsAreSound, SoundBut, SeatSound, RunningNow

\* A save loads the closed tables of every evening that is not over.
LEMMA UnfinishedIsRecent ==
  ASSUME NEW b \in Row, InItsShift(b), NEW now \in Nat, now < b.window.end, NEW cfg
  PROVE  CurrentServiceDay(cfg, now) - 1 <= b.service_day
<1> DEFINE today == Today(now)
           s == b.service_day
<1>1. today \in Days /\ Midnight[today] <= now
  BY TodayIsADay
<1>2. s \in Days /\ b.window.end <= Ends(s) /\ b.window.end \in Nat
  BY DEF InItsShift, Row, Windows
<1>3. today \in Int /\ s \in Int /\ Ends(s) \in Int /\ Midnight[today] \in Nat
  BY <1>1, <1>2, ClockTypes, ShiftTypes
<1>4. CurrentServiceDay(cfg, now) \in {today - 1, today}
  BY DEF CurrentServiceDay
<1> HIDE DEF today, s
<1>5. ~(s + 1 < today)
  <2> SUFFICES ASSUME s + 1 < today PROVE FALSE
    OBVIOUS
  <2>1. Ends(s) <= Midnight[today]
    BY <1>1, <1>2, ShiftsEndAssumption
  <2> QED
    BY <2>1, <1>1, <1>2, <1>3
<1>6. today - 1 <= s
  BY <1>3, <1>5
<1> QED
  BY <1>3, <1>4, <1>6 DEF s

LEMMA RunningIsLoaded ==
  ASSUME NEW b \in Row, b.status # "absent" => InItsShift(b), NEW now \in Nat,
         NEW at \in Nat, now <= at, ~HasFinished(b, at)
  PROVE  ~HasFinished(b, now) /\ IsLive(b) /\ now < b.window.end /\ InItsShift(b)
<1>1. ~HasFinished(b, now)
  BY FinishedForGood
<1>2. Occupies(b) /\ ~(HeldUntil(b) <= now)
  BY <1>1 DEF HasFinished
<1>3. InItsShift(b) /\ IsLive(b)
  BY <1>2, OccupantsExist
<1>4. HeldUntil(b) <= b.window.end /\ HeldUntil(b) \in Nat /\ b.window.end \in Nat
  BY <1>3, HeldWithinWindow DEF Held
<1> QED
  BY <1>1, <1>2, <1>3, <1>4

LEMMA SaveMakesSound ==
  ASSUME IInv, NEW now \in Moments, NEW draft \in Drafts, SaveSettings(draft, now)
  PROVE  SeatsAreSound'
<1> DEFINE cfg == Resolve(draft, config)
           loaded == {j \in Ids : IsLive(bookings[j]) /\ now < bookings[j].window.end}
           closed == {k \in blocks : CurrentServiceDay(cfg, now) - 1 <= k[2]}
<1>1. PICK seat \in Reseatings([i \in loaded |-> bookings[i]], cfg.tables, closed, now) :
        bookings' = Reseated(bookings, seat, DOMAIN seat)
  BY DEF SaveSettings, SavedRooms, ReconciledFrom, Unfinished
<1>2. /\ bookings \in [Ids -> Row] /\ InShift(bookings)
      /\ clock \in Nat /\ now \in Nat /\ now <= clock
  BY InvariantParts DEF Typed, Moments, Orderly
<1>3. config' = cfg /\ blocks' = blocks /\ clock' = clock
  BY DEF SaveSettings
<1>4. ASSUME NEW i \in Ids
      PROVE  SeatSound(bookings'[i], cfg.tables, blocks, clock)
  <2>1. SameButTable(bookings[i], bookings'[i])
    BY <1>2, SaveReconciles DEF Reconciles
  <2>2. CASE HasFinished(bookings[i], clock)
    BY <2>1, <2>2, SameHeld DEF SeatSound
  <2>3. CASE ~HasFinished(bookings[i], clock)
    <3>1. bookings[i] \in Row /\ (bookings[i].status # "absent" => InItsShift(bookings[i]))
      BY <1>2 DEF InShift
    <3>2. IsLive(bookings[i]) /\ now < bookings[i].window.end /\ InItsShift(bookings[i])
      BY <1>2, <2>3, <3>1, RunningIsLoaded
    <3>3. CurrentServiceDay(cfg, now) - 1 <= bookings[i].service_day
      BY <1>2, <3>1, <3>2, UnfinishedIsRecent
    <3>4. \A t \in Tables : <<t, bookings[i].service_day>> \in blocks
                            => <<t, bookings[i].service_day>> \in closed
      BY <3>3
    <3>5. i \in loaded /\ loaded \in SUBSET Ids
      BY <3>2
    <3>6. now \in Int /\ clock \in Int
      BY <1>2
    <3> HIDE DEF loaded, closed, cfg
    <3> QED
      BY <1>1, <1>2, <3>4, <3>5, <3>6, ReseatedIsSound
  <2> QED
    BY <2>2, <2>3
<1> HIDE DEF cfg
<1> QED
  BY <1>3, <1>4 DEF SeatsAreSound, RunningNow, SeatSound

LEMMA ReconcilingMakesSound ==
  ASSUME clock \in Nat, NEW now \in Moments, NEW day \in Days, NEW written \in [Ids -> Row],
         SoundBut(written, {day}, config.tables, blocks', clock),
         bookings' \in ReconciledShift(written, day, config.tables, blocks', now),
         UNCHANGED <<config, clock>>
  PROVE  SeatsAreSound'
<1>1. now \in Int /\ clock \in Int /\ now <= clock
  BY DEF Moments
<1>2. SoundBut(bookings', {}, config.tables, blocks', clock)
  BY <1>1, ShiftMakesSound
<1> QED
  BY <1>2 DEF SeatsAreSound, SoundBut, SeatSound, RunningNow

\* An operation that writes one row and reconciles its evening.
LEMMA RowMakesSound ==
  ASSUME IInv, SeatsAreSound, NEW now \in Moments, NEW i \in Ids, NEW row \in Row,
         bookings' \in ReconciledShift([bookings EXCEPT ![i] = row], row.service_day,
                                       config.tables, blocks, now),
         UNCHANGED <<blocks, config, clock>>
  PROVE  SeatsAreSound'
<1> DEFINE written == [bookings EXCEPT ![i] = row]
<1>1. bookings \in [Ids -> Row] /\ clock \in Nat /\ row.service_day \in Days
  BY InvariantParts DEF Typed, Row
<1>2. written \in [Ids -> Row] /\ \A j \in Ids : written[j] = IF j = i THEN row ELSE bookings[j]
  BY <1>1
<1> HIDE DEF written
<1>3. SoundBut(written, {row.service_day}, config.tables, blocks', clock)
  BY <1>2, SoundRows DEF SoundBut
<1> QED
  BY <1>1, <1>2, <1>3, ReconcilingMakesSound DEF written

\* A row written at a table that load_window showed to be free.
LEMMA FreeSeatIsSound ==
  ASSUME NEW party, NEW day \in Days, NEW window, NEW tables, NEW book, NEW ignoring,
         NEW row, row.party_size = party, row.service_day = day,
         row.table \in FreeTables([party_size |-> party, window |-> window,
                                   service_day |-> day, tables |-> tables,
                                   bookings |-> book, blocks |-> BlocksAround(blocks, day),
                                   ignoring |-> ignoring])
  PROVE  SeatingIsSound(row, tables, blocks)
<1> DEFINE q == [party_size |-> party, window |-> window, service_day |-> day,
                 tables |-> tables, bookings |-> book,
                 blocks |-> BlocksAround(blocks, day), ignoring |-> ignoring]
<1>1. /\ q.party_size = party /\ q.service_day = day /\ q.tables = tables
      /\ q.blocks = BlocksAround(blocks, day)
  OBVIOUS
<1>2. row.table \in FreeTables(q)
  OBVIOUS
<1> HIDE DEF q
<1>3. /\ row.table \in Tables /\ ~tables[row.table].retired
      /\ party <= tables[row.table].seats
      /\ <<row.table, day>> \notin BlocksAround(blocks, day)
  BY <1>1, <1>2, FreeIsSound
<1>4. day \in Neighbours(day)
  BY ClockTypes DEF Neighbours
<1> QED
  BY <1>3, <1>4, TablesAreNumbered DEF SeatingIsSound, BlocksAround

LEMMA CreateBookingMakesSound ==
  ASSUME IInv, SeatsAreSound, NEW id \in Ids, NEW user \in Guests \cup {NoGuest},
         NEW day \in Days, NEW minutes, NEW party \in Nat, NEW chosen, NEW now \in Moments,
         CreateBooking(id, user, day, minutes, party, chosen, now)
  PROVE  SeatsAreSound'
<1> DEFINE replacing == ReplacedOn(Running(bookings, user, now), bookings, day, now)
           window == WindowOf(config, day, minutes)
           evenings == {bookings[i].service_day : i \in replacing}
           good == {b \in [Ids -> Row] :
                      Orderly(b) /\ SoundBut(b, {}, config.tables, blocks, clock)}
           S == [d \in 0 .. LastDay + 1 |-> good]
<1>1. /\ bookings \in [Ids -> Row] /\ clock \in Nat
      /\ now \in Nat /\ now \in Int /\ clock \in Int /\ now <= clock
  BY InvariantParts DEF Typed, Moments
<1>2. PICK table : BookingWrites(id, user, day, minutes, party, now, table)
  BY <1>1, BookingWritten
<1> DEFINE row == NewRow(table, day, window, party, user, "confirmed")
           written == Taken(id, row, replacing)
           q == [party_size |-> party, window |-> row.window, service_day |-> day,
                 tables |-> config.tables, bookings |-> Around(bookings, day),
                 blocks |-> BlocksAround(blocks, day), ignoring |-> replacing]
<1>3. /\ Orderly(written) /\ table \in FreeTables(q)
      /\ bookings' \in AfterReplacing(written, evenings, now)
  BY <1>2 DEF BookingWrites
<1>4. UNCHANGED <<blocks, config, clock>>
  BY DEF CreateBooking
<1>5. SeatingIsSound(row, config.tables, blocks)
  BY <1>3, FreeSeatIsSound DEF NewRow
<1>6. written \in good
  <2>1. ASSUME NEW j \in Ids
        PROVE  SeatSound(written[j], config.tables, blocks, clock)
    <3>1. written[j] = IF j = id THEN row
                       ELSE IF j \in replacing THEN [bookings[j] EXCEPT !.status = "cancelled"]
                       ELSE bookings[j]
      BY DEF Taken
    <3>2. SeatSound([bookings[j] EXCEPT !.status = "cancelled"], config.tables, blocks, clock)
      <4>1. [bookings[j] EXCEPT !.status = "cancelled"].status = "cancelled"
        BY <1>1 DEF Row
      <4> QED
        BY <4>1 DEF SeatSound, HasFinished, Occupies, IsLive
    <3> HIDE DEF row, written, replacing
    <3> QED
      BY <3>1, <3>2, <1>5, SoundRows DEF SoundBut, SeatSound
  <2>2. SoundBut(written, {}, config.tables, blocks, clock)
    BY <2>1 DEF SoundBut
  <2> HIDE DEF written
  <2> QED
    BY <2>2, <1>3 DEF Orderly
<1>7. LastDay \in Nat
  BY CalendarAssumption
<1>8. ASSUME NEW d \in Days, NEW b \in S[d]
      PROVE  /\ b \in S[d + 1]
             /\ ReconciledShift(b, d, config.tables, blocks, now) \subseteq S[d + 1]
  <2>1. d \in 0 .. LastDay + 1 /\ d + 1 \in 0 .. LastDay + 1
    BY <1>7 DEF Days
  <2>2. b \in [Ids -> Row] /\ Orderly(b) /\ SoundBut(b, {}, config.tables, blocks, clock)
    BY <2>1
  <2>3. ASSUME NEW c \in ReconciledShift(b, d, config.tables, blocks, now)
        PROVE  c \in good
    <3>1. SoundBut(b, {d}, config.tables, blocks, clock)
      BY <2>2 DEF SoundBut
    <3>2. SoundBut(c, {}, config.tables, blocks, clock)
      BY <1>1, <2>2, <3>1, ShiftMakesSound
    <3>3. Orderly(c)
      BY <2>2, ReconciledShiftKeepsOrder
    <3> QED
      BY <3>2, <3>3 DEF Orderly
  <2> HIDE DEF good
  <2> QED
    BY <2>1, <2>3
<1> HIDE DEF good, written
<1>9. written \in S[0]
  BY <1>6, <1>7
<1> HIDE DEF S
<1>10. bookings' \in S[LastDay + 1]
  BY <1>3, <1>8, <1>9, EveningByEvening
<1>11. bookings' \in good
  BY <1>7, <1>10 DEF S
<1> QED
  BY <1>4, <1>11 DEF good, SeatsAreSound, SoundBut, SeatSound, RunningNow

LEMMA SetAttendanceMakesSound ==
  ASSUME IInv, SeatsAreSound, NEW i \in Ids, NEW attendance \in Statuses \ {"absent"},
         NEW now \in Moments, SetAttendance(i, attendance, now)
  PROVE  SeatsAreSound'
<1> DEFINE row == [bookings[i] EXCEPT !.status = attendance,
                     !.released_at = ReleasedAt(attendance, bookings[i].window, now)]
<1>1. now \in Nat
  BY InvariantParts DEF Typed, Moments
<1>2. /\ row \in Row /\ UNCHANGED <<blocks, config, clock>>
      /\ bookings' \in ReconciledShift([bookings EXCEPT ![i] = row], row.service_day,
                                       config.tables, blocks, now)
  BY <1>1, AttendanceWritten DEF AttendanceWrites
<1> HIDE DEF row
<1> QED
  BY <1>2, RowMakesSound

LEMMA MoveBookingMakesSound ==
  ASSUME IInv, SeatsAreSound, NEW i \in Ids, NEW minutes, NEW party \in Nat, NEW chosen,
         NEW now \in Moments, MoveBooking(i, minutes, party, chosen, now)
  PROVE  SeatsAreSound'
<1> DEFINE b == bookings[i]
<1>1. now \in Nat
  BY InvariantParts DEF Typed, Moments
<1>2. PICK window, table : b \in Row /\ MoveWrites(i, minutes, party, now, window, table)
  BY <1>1, MoveWritten
<1> DEFINE row == Moved(b, table, window, party)
<1>3. row.service_day = b.service_day
  BY <1>2 DEF Moved, Row
<1>4. /\ row \in Row
      /\ bookings' \in ReconciledShift([bookings EXCEPT ![i] = row], b.service_day,
                                       config.tables, blocks, now)
  BY <1>2 DEF MoveWrites
<1>5. UNCHANGED <<blocks, config, clock>>
  BY DEF MoveBooking
<1> HIDE DEF row
<1> QED
  BY <1>3, <1>4, <1>5, RowMakesSound

LEMMA CancelLockedMakesSound ==
  ASSUME IInv, SeatsAreSound, NEW i \in Ids, NEW noticed, NEW now \in Moments,
         CancelLocked(i, noticed, now)
  PROVE  SeatsAreSound'
<1> DEFINE row == [bookings[i] EXCEPT !.status = "cancelled"]
<1>1. bookings[i] \in Row
  BY InvariantParts DEF Typed
<1>2. row \in Row /\ row.service_day = bookings[i].service_day
  BY <1>1 DEF Row, Statuses
<1>3. /\ bookings' \in ReconciledShift([bookings EXCEPT ![i] = row], bookings[i].service_day,
                                       config.tables, blocks, now)
      /\ UNCHANGED <<blocks, config, clock>>
  BY DEF CancelLocked
<1> HIDE DEF row
<1> QED
  BY <1>2, <1>3, RowMakesSound

\* A walk-in is seated without reconciling: its own row is what changes.
LEMMA SeatWalkInMakesSound ==
  ASSUME IInv, SeatsAreSound, NEW id \in Ids, NEW day \in Days, NEW party \in Nat,
         NEW chosen, NEW now \in Moments, SeatWalkIn(id, day, party, chosen, now)
  PROVE  SeatsAreSound'
<1> DEFINE window == WalkInWindow(config, day, now)
           q == [party_size |-> party, window |-> window, service_day |-> day,
                 tables |-> config.tables, bookings |-> Around(bookings, day),
                 blocks |-> BlocksAround(blocks, day), ignoring |-> {}]
<1>1. bookings \in [Ids -> Row]
  BY InvariantParts DEF Typed
<1>2. PICK table \in FreeTables(q) :
        bookings' = [bookings EXCEPT ![id] = NewRow(table, day, window, party, NoGuest, "arrived")]
  BY DEF SeatWalkIn, SeatOf
<1> DEFINE row == NewRow(table, day, window, party, NoGuest, "arrived")
<1>3. UNCHANGED <<blocks, config, clock>>
  BY DEF SeatWalkIn
<1>4. SeatingIsSound(row, config.tables, blocks)
  BY FreeSeatIsSound DEF NewRow
<1>5. \A j \in Ids : bookings'[j] = IF j = id THEN row ELSE bookings[j]
  BY <1>1, <1>2
<1> HIDE DEF row
<1> QED
  BY <1>3, <1>4, <1>5 DEF SeatsAreSound, RunningNow

LEMMA ReconcileShiftMakesSound ==
  ASSUME IInv, SeatsAreSound, NEW day \in Days, NEW now \in Moments, ReconcileShift(day, now)
  PROVE  SeatsAreSound'
<1>1. bookings \in [Ids -> Row] /\ clock \in Nat
  BY InvariantParts DEF Typed
<1>2. UNCHANGED <<blocks, config, clock>>
  BY DEF ReconcileShift
<1>3. SoundBut(bookings, {day}, config.tables, blocks', clock)
  BY <1>2, SoundRows DEF SoundBut
<1> QED
  BY <1>1, <1>2, <1>3, ReconcilingMakesSound DEF ReconcileShift

\* What is closed or opened of one evening says nothing of the others.
LEMMA ClosingMakesSound ==
  ASSUME IInv, SeatsAreSound, NEW day \in Days, NEW asked, NEW now \in Moments,
         BlockTables(day, asked, now) \/ UnblockTables(day, asked, now)
  PROVE  SeatsAreSound'
<1>1. bookings \in [Ids -> Row] /\ clock \in Nat
  BY InvariantParts DEF Typed
<1>2. /\ UNCHANGED <<config, clock>>
      /\ bookings' \in ReconciledShift(bookings, day, config.tables, blocks', now)
      /\ \A k : k[2] # day => (k \in blocks' <=> k \in blocks)
  BY DEF BlockTables, UnblockTables
<1>3. SoundBut(bookings, {day}, config.tables, blocks', clock)
  <2>1. ASSUME NEW j \in Ids, bookings[j].service_day # day
        PROVE  SeatSound(bookings[j], config.tables, blocks', clock)
    <3>1. SeatSound(bookings[j], config.tables, blocks, clock)
      BY SoundRows DEF SoundBut
    <3>2. <<bookings[j].table, bookings[j].service_day>> \in blocks' =>
            <<bookings[j].table, bookings[j].service_day>> \in blocks
      BY <1>2, <2>1
    <3> QED
      BY <3>1, <3>2 DEF SeatSound, SeatingIsSound
  <2> QED
    BY <2>1 DEF SoundBut
<1> QED
  BY <1>1, <1>2, <1>3, ReconcilingMakesSound

LEMMA TickMakesSound ==
  ASSUME IInv, SeatsAreSound, Tick
  PROVE  SeatsAreSound'
<1>1. bookings \in [Ids -> Row] /\ clock \in Int /\ clock + 1 \in Int
  BY InvariantParts DEF Typed
<1>2. UNCHANGED <<bookings, blocks, config>> /\ clock' = clock + 1
  BY DEF Tick
<1>3. \A i \in Ids : HasFinished(bookings[i], clock) => HasFinished(bookings[i], clock + 1)
  BY <1>1, FinishedForGood
<1> QED
  BY <1>2, <1>3 DEF SeatsAreSound, RunningNow

LEMMA InitIsSound ==
  ASSUME Init
  PROVE  SeatsAreSound
BY DEF Init, SeatsAreSound, RunningNow, HasFinished, Occupies, IsLive, NoRow

LEMMA StepMakesSound ==
  ASSUME IInv, SeatsAreSound, [Next]_vars
  PROVE  SeatsAreSound'
<1>1. Unused \subseteq Ids /\ Live \subseteq Ids /\ Parties \subseteq Nat
  BY RoomAssumption DEF Unused, Live
<1>2. CASE StaffBooks
  BY <1>1, <1>2, CreateBookingMakesSound DEF StaffBooks, StaffBook
<1>3. CASE GuestBooks
  <2>1. \A g \in Guests : promise[g].day \in Days
    BY InvariantParts DEF Typed
  <2> QED
    BY <1>1, <1>3, <2>1, CreateBookingMakesSound DEF GuestBooks, GuestBook
<1>4. CASE WalksIn
  BY <1>1, <1>4, SeatWalkInMakesSound DEF WalksIn
<1>5. CASE StaffMark
  <2>1. {"confirmed", "arrived", "no_show", "left"} \subseteq Statuses \ {"absent"}
    BY DEF Statuses
  <2> QED
    BY <1>1, <1>5, <2>1, SetAttendanceMakesSound DEF StaffMark
<1>6. CASE StaffMove
  BY <1>1, <1>6, MoveBookingMakesSound DEF StaffMove
<1>7. CASE StaffCancels \/ GuestCancels \/ GuestTapsReminder
  <2>1. PICK now \in Moments, i \in Live, noticed \in BOOLEAN : CancelLocked(i, noticed, now)
    BY <1>7 DEF StaffCancels, StaffCancel, GuestCancels, GuestCancel,
                GuestTapsReminder, CancelReminded
  <2> QED
    BY <1>1, <2>1, CancelLockedMakesSound
<1>8. CASE StaffReconcile
  BY <1>8, ReconcileShiftMakesSound DEF StaffReconcile
<1>9. CASE StaffClose \/ StaffReopen
  <2>1. PICK now \in Moments, day \in Days, asked \in SUBSET Tables :
          BlockTables(day, asked, now) \/ UnblockTables(day, asked, now)
    BY <1>9 DEF StaffClose, StaffReopen
  <2> QED
    BY <2>1, ClosingMakesSound
<1>10. CASE ManagerSaves
  BY <1>10, SaveMakesSound DEF ManagerSaves
<1>11. CASE Tick
  BY <1>11, TickMakesSound
<1>12. CASE GuestReads \/ SaveIsLost \/ WorkerDelivers \/ UNCHANGED vars
  <2>1. UNCHANGED <<bookings, blocks, config, clock>>
    BY <1>12 DEF GuestReads, ReadOffer, SaveIsLost, SaveSettingsLost, WorkerDelivers,
                 DeliverReminder, vars
  <2> QED
    BY <2>1 DEF SeatsAreSound, RunningNow
<1> QED
  BY <1>2, <1>3, <1>4, <1>5, <1>6, <1>7, <1>8, <1>9, <1>10, <1>11, <1>12 DEF Next

(***************************************************************************)
(* Whatever closes, shrinks or retires a table, moves a party or brings it *)
(* back to one, and however old the clock reading that decided it: every   *)
(* party whose evening is not over sits at a table that is in the room,    *)
(* open that evening and large enough for it.                              *)
(***************************************************************************)
THEOREM SeatsStaySound == Spec => []SeatsAreSound
<1>1. Init => SeatsAreSound
  BY InitIsSound
<1>2. IInv /\ SeatsAreSound /\ [Next]_vars => SeatsAreSound'
  BY StepMakesSound
<1> QED
  BY <1>1, <1>2, InvariantHolds, PTL DEF Spec

-----------------------------------------------------------------------------
(***************************************************************************)
(* Nobody is stranded, as long as no save takes seats from a table.  One   *)
(* that does may (run `stranded`): the loop of reconcile asks for an early *)
(* candidate against the old seat of a later one, which the shrunk table   *)
(* is about to lose.  Without such a save every row fits the table it is   *)
(* at, so a later candidate lost its table because it is closed or gone,   *)
(* and then the early one could not have it either.                        *)
(***************************************************************************)

\* A party at a table fits it.
PartiesFit(book, tables) ==
  \A i \in Ids : book[i].table # NoTable =>
     book[i].table \in Tables /\ book[i].party_size <= tables[book[i].table].seats

\* The table is open, large enough and free for booking i.
CouldHave(t, i, book, tables, closed) ==
  /\ ~tables[t].retired
  /\ <<t, book[i].service_day>> \notin closed
  /\ book[i].party_size <= tables[t].seats
  /\ FreeDuring(t, book[i].window, book, {i})

Served(i, book, tables, closed, at) ==
  ~HasFinished(book[i], at) /\ book[i].table = NoTable =>
    \A t \in Tables : ~CouldHave(t, i, book, tables, closed)

\* But for the evenings of these days.
ServedBut(book, days, tables, closed, at) ==
  \A i \in Ids : book[i].service_day \notin days => Served(i, book, tables, closed, at)

LEMMA ServedRows == NoStrandedOrphan <=> ServedBut(bookings, {}, config.tables, blocks, clock)
<1>1. ASSUME NEW i \in Ids
      PROVE  FreeTables(OwnRequest(i)) =
               {t \in Tables : CouldHave(t, i, bookings, config.tables, blocks)}
  BY DEF OwnRequest, FreeTables, OpenTables, CouldHave
<1> QED
  BY <1>1 DEF NoStrandedOrphan, ServedBut, Served, RunningNow

LEMMA ServedAfter ==
  NoStrandedOrphan' <=> ServedBut(bookings', {}, config'.tables, blocks', clock')
<1>1. ASSUME NEW i \in Ids
      PROVE  FreeTables(OwnRequest(i))' =
               {t \in Tables : CouldHave(t, i, bookings', config'.tables, blocks')}
  BY DEF OwnRequest, FreeTables, OpenTables, CouldHave
<1> QED
  BY <1>1 DEF NoStrandedOrphan, ServedBut, Served, RunningNow

\* Who stands in a party's way has the same evening.
LEMMA HolderIsOfTheEvening ==
  ASSUME NEW a \in Row, NEW b \in Row, InItsShift(a), IsLive(a),
         b.status # "absent" => InItsShift(b),
         NEW t, Holds(b, t, a.window)
  PROVE  b.service_day = a.service_day
<1> DEFINE whole == [a EXCEPT !.released_at = NotReleased]
<1>1. Occupies(b) /\ Overlaps(Held(b), a.window) /\ InItsShift(b)
  BY OccupantsExist DEF Holds
<1>2. /\ whole.window = a.window /\ whole.service_day = a.service_day
      /\ whole.released_at = NotReleased /\ whole \in Row
  BY DEF Row, NotReleased
<1> HIDE DEF whole
<1>3. InItsShift(whole)
  BY <1>2 DEF InItsShift
<1>4. Held(whole).start = a.window.start /\ Held(whole).end = a.window.end
  BY <1>2 DEF Held, HeldUntil
<1>5. Overlaps(Held(whole), Held(b))
  BY <1>1, <1>4 DEF Overlaps
<1> QED
  BY <1>1, <1>2, <1>3, <1>5, EveningsApart

\* Rows that changed stand nowhere in the way of the other evenings, or hold
\* a table where they held none: who had no table still has none to have.
LEMMA StillServed ==
  ASSUME NEW book \in [Ids -> Row], InShift(book), NEW new \in [Ids -> Row],
         NEW tables, NEW closed, NEW at, NEW less, NEW days,
         ServedBut(book, less, tables, closed, at), less \subseteq days,
         \A k \in Ids :
            \/ new[k] = book[k]
            \/ /\ new[k].service_day \in days
               /\ Occupies(book[k]) => book[k].service_day \in days
            \/ ~Occupies(book[k]) /\ new[k].table # NoTable
  PROVE  ServedBut(new, days, tables, closed, at)
<1> SUFFICES ASSUME NEW i \in Ids, new[i].service_day \notin days,
                    ~HasFinished(new[i], at), new[i].table = NoTable,
                    NEW t \in Tables, CouldHave(t, i, new, tables, closed)
             PROVE  FALSE
  BY DEF ServedBut, Served
<1>1. new[i] = book[i]
  OBVIOUS
<1>2. Served(i, book, tables, closed, at)
  BY <1>1 DEF ServedBut
<1>3. ~FreeDuring(t, book[i].window, book, {i})
  BY <1>1, <1>2 DEF Served, CouldHave
<1>4. PICK j \in Ids \ {i} : Holds(book[j], t, book[i].window)
  BY <1>3 DEF FreeDuring
<1>5. Occupies(book[i]) /\ IsLive(book[i]) /\ InItsShift(book[i])
  BY <1>1, OccupantsExist DEF HasFinished, InShift
<1>6. book[j].service_day = book[i].service_day
  <2>1. book[i] \in Row /\ book[j] \in Row /\ (book[j].status # "absent" => InItsShift(book[j]))
    BY DEF InShift
  <2> QED
    BY <1>4, <1>5, <2>1, HolderIsOfTheEvening
<1>7. Occupies(book[j])
  BY <1>4 DEF Holds
<1>8. new[j] = book[j]
  BY <1>1, <1>6, <1>7
<1>9. Holds(new[j], t, new[i].window) /\ j \in DOMAIN new
  BY <1>1, <1>4, <1>8
<1> QED
  BY <1>9 DEF CouldHave, FreeDuring

LEMMA ReseatedIsServed ==
  ASSUME NEW book \in [Ids -> Row], InShift(book), NEW loaded \in SUBSET Ids,
         NEW tables, NEW closed, NEW now \in Int, NEW at \in Int, now <= at,
         NEW seat \in Reseatings([k \in loaded |-> book[k]], tables, closed, now),
         NEW new, new = Reseated(book, seat, DOMAIN seat),
         PartiesFit(book, tables), NEW i \in loaded,
         NEW all, closed \subseteq all
  PROVE  Served(i, new, tables, all, at)
<1> DEFINE sub == [k \in loaded |-> book[k]]
           who == Candidates(sub, tables, closed, now)
           q == ReseatRequest(i, seat, sub, tables, closed)
           work == Reseated(sub, seat, {j \in DOMAIN seat : Earlier(j, i, sub)})
<1> SUFFICES ASSUME ~HasFinished(new[i], at), new[i].table = NoTable,
                    NEW t \in Tables, CouldHave(t, i, new, tables, all)
             PROVE  FALSE
  BY DEF Served
<1>1. seat \in [who -> Seats] /\ i \in Ids /\ sub[i] = book[i] /\ who \subseteq loaded
  BY DEF Reseatings, Candidates
<1>2. \A k \in Ids : SameButTable(book[k], new[k])
  BY ReseatingReconciles DEF Reconciles
<1>3. book[i] \in Row /\ ~HasFinished(book[i], now) /\ IsLive(book[i]) /\ InItsShift(book[i])
  <2>1. ~HasFinished(book[i], at)
    BY <1>1, <1>2, SameHeld
  <2>2. book[i] \in Row
    BY <1>1
  <2> QED
    BY <2>1, <2>2, <1>1, FinishedForGood, OccupantsExist DEF HasFinished, InShift
<1>4. i \in who
  <2>1. CASE i \notin who
    <3>1. new[i] = book[i]
      BY <1>1, <2>1 DEF Reseated
    <3> QED
      BY <3>1, <1>1, <1>3 DEF Candidates, SeatingIsSound
  <2> QED
    BY <2>1
<1>5. seat[i] = NoTable
  BY <1>1, <1>3, <1>4 DEF Reseated, Row
<1>6. FreeTables(q) = {}
  <2>1. Assigned(q, seat[i])
    BY <1>1, <1>4 DEF Reseatings
  <2> QED
    BY <2>1, <1>5, FreeIsSound, TablesAreNumbered DEF Assigned
<1>7. /\ ~tables[t].retired /\ <<t, book[i].service_day>> \notin all
      /\ book[i].party_size <= tables[t].seats
      /\ FreeDuring(t, book[i].window, new, {i})
  BY <1>1, <1>2 DEF CouldHave, SameButTable
<1>8. ~FreeDuring(t, book[i].window, work, {i})
  <2>1. /\ q.tables = tables /\ q.service_day = book[i].service_day /\ q.blocks = closed
        /\ q.party_size = book[i].party_size /\ q.window = book[i].window
        /\ q.bookings = work /\ q.ignoring = {i}
    BY <1>1 DEF ReseatRequest
  <2> HIDE DEF q, work
  <2> QED
    BY <1>6, <1>7, <2>1 DEF FreeTables, OpenTables
<1>9. PICK j \in loaded \ {i} : Holds(work[j], t, book[i].window)
  BY <1>8 DEF FreeDuring, Reseated
<1>10. ~Holds(new[j], t, book[i].window)
  BY <1>7, <1>9 DEF FreeDuring, Reseated
<1>11. CASE j \in who /\ ~Earlier(j, i, sub)
  <2>1. work[j] = book[j] /\ book[j] \in Row
    BY <1>1, <1>9, <1>11 DEF Reseated
  <2>2. ~SeatingIsSound(book[j], tables, closed)
    BY <1>9, <1>11 DEF Candidates
  <2>3. book[j].table = t /\ Occupies(book[j])
    BY <1>9, <2>1 DEF Holds
  <2>4. book[j].party_size <= tables[t].seats /\ t # NoTable
    BY <1>9, <2>3, TablesAreNumbered DEF PartiesFit
  <2>5. <<t, book[j].service_day>> \in closed
    BY <1>7, <2>2, <2>3, <2>4 DEF SeatingIsSound
  <2>6. book[j].service_day = book[i].service_day
    <3>1. book[j].status # "absent" => InItsShift(book[j])
      BY <1>9 DEF InShift
    <3> QED
      BY <1>3, <1>9, <2>1, <3>1, HolderIsOfTheEvening
  <2> QED
    BY <1>7, <2>5, <2>6
<1>12. CASE ~(j \in who /\ ~Earlier(j, i, sub))
  <2>1. work[j] = new[j]
    BY <1>1, <1>9, <1>12 DEF Reseated
  <2> QED
    BY <1>9, <1>10, <2>1
<1> QED
  BY <1>11, <1>12

LEMMA ReseatedFits ==
  ASSUME NEW book \in [Ids -> Row], NEW loaded \in SUBSET Ids,
         NEW tables, NEW closed, NEW now,
         NEW seat \in Reseatings([k \in loaded |-> book[k]], tables, closed, now),
         PartiesFit(book, tables)
  PROVE  PartiesFit(Reseated(book, seat, DOMAIN seat), tables)
<1> DEFINE sub == [k \in loaded |-> book[k]]
           who == Candidates(sub, tables, closed, now)
           new == Reseated(book, seat, DOMAIN seat)
<1>1. seat \in [who -> Seats] /\ who \subseteq loaded
  BY DEF Reseatings, Candidates
<1>2. SUFFICES ASSUME NEW i \in Ids, new[i].table # NoTable
               PROVE  /\ new[i].table \in Tables
                      /\ new[i].party_size <= tables[new[i].table].seats
  BY DEF PartiesFit
<1>3. CASE i \notin who
  BY <1>1, <1>2, <1>3 DEF Reseated, PartiesFit
<1>4. CASE i \in who
  <2> DEFINE q == ReseatRequest(i, seat, sub, tables, closed)
  <2>1. new[i].table = seat[i] /\ new[i].party_size = book[i].party_size
    BY <1>1, <1>4 DEF Reseated, Row
  <2>2. Assigned(q, seat[i])
    BY <1>1, <1>4 DEF Reseatings
  <2>3. q.party_size = book[i].party_size /\ q.tables = tables
    BY <1>1, <1>4 DEF ReseatRequest
  <2>4. seat[i] \in FreeTables(q)
    BY <1>2, <2>1, <2>2 DEF Assigned
  <2> HIDE DEF q, new
  <2> QED
    BY <2>1, <2>3, <2>4, FreeIsSound
<1> QED
  BY <1>3, <1>4

\* Reconciling an evening serves it, and its neighbours.
LEMMA ShiftServes ==
  ASSUME NEW book, Orderly(book), NEW day \in Days, NEW tables, NEW closed,
         NEW now \in Int, NEW at \in Int, now <= at, NEW days,
         PartiesFit(book, tables), ServedBut(book, days, tables, closed, at),
         NEW new \in ReconciledShift(book, day, tables, closed, now)
  PROVE  /\ Orderly(new) /\ PartiesFit(new, tables)
         /\ ServedBut(new, days \ {day}, tables, closed, at)
<1> DEFINE loaded == {j \in Ids : IsLive(book[j]) /\ book[j].service_day \in Neighbours(day)}
           near == BlocksAround(closed, day)
<1>1. PICK seat \in Reseatings([k \in loaded |-> book[k]], tables, near, now) :
        new = Reseated(book, seat, DOMAIN seat)
  BY DEF ReconciledShift, Around
<1>2. book \in [Ids -> Row] /\ InShift(book) /\ Orderly(new) /\ new \in [Ids -> Row]
  BY ReconciledShiftKeepsOrder DEF Orderly
<1>3. loaded \in SUBSET Ids /\ near \subseteq closed
  BY DEF BlocksAround
<1>4. Reconciles(book, new, now)
  BY <1>2, ShiftReconciles
<1>5. \A i \in Ids : book[i].service_day \notin Neighbours(day) => new[i] = book[i]
  BY <1>2, ShiftSettles
<1>6. day \in Neighbours(day)
  BY ClockTypes DEF Neighbours
<1>7. ASSUME NEW i \in loaded
      PROVE  Served(i, new, tables, closed, at)
  <2> HIDE DEF loaded, near
  <2> QED
    BY <1>1, <1>2, <1>3, ReseatedIsServed
<1>8. ASSUME NEW i \in Ids, new[i].service_day \in Neighbours(day)
      PROVE  Served(i, new, tables, closed, at)
  <2>1. CASE i \in loaded
    BY <2>1, <1>7
  <2>2. CASE i \notin loaded
    <3>1. SameButTable(book[i], new[i])
      BY <1>4 DEF Reconciles
    <3>2. ~IsLive(new[i])
      BY <1>8, <2>2, <3>1 DEF SameButTable, IsLive
    <3> QED
      BY <3>2 DEF Served, HasFinished, Occupies
  <2> QED
    BY <2>1, <2>2
<1>9. ServedBut(new, days \cup Neighbours(day), tables, closed, at)
  <2> DEFINE more == days \cup Neighbours(day)
  <2>1. \A k \in Ids : \/ new[k] = book[k]
                       \/ /\ new[k].service_day \in more
                          /\ Occupies(book[k]) => book[k].service_day \in more
    BY <1>4, <1>5 DEF Reconciles, SameButTable
  <2>2. days \subseteq more
    OBVIOUS
  <2> HIDE DEF more
  <2>3. ServedBut(new, more, tables, closed, at)
    BY <1>2, <2>1, <2>2, StillServed
  <2> QED
    BY <2>3 DEF more
<1>10. PartiesFit(new, tables)
  <2> HIDE DEF loaded, near
  <2> QED
    BY <1>1, <1>2, <1>3, ReseatedFits
<1>11. ASSUME NEW i \in Ids, new[i].service_day \notin days \ {day}
       PROVE  Served(i, new, tables, closed, at)
  <2>1. CASE new[i].service_day \in Neighbours(day)
    BY <2>1, <1>8
  <2>2. CASE new[i].service_day \notin Neighbours(day)
    <3>1. new[i].service_day \notin days \cup Neighbours(day)
      BY <1>6, <1>11, <2>2
    <3> QED
      BY <3>1, <1>9 DEF ServedBut
  <2> QED
    BY <2>1, <2>2
<1> QED
  BY <1>2, <1>10, <1>11 DEF ServedBut

\* What the invariant adds: everybody fits and nobody is stranded.
AllServed == PartiesFit(bookings, config.tables) /\ NoStrandedOrphan

LEMMA ReconcilingServes ==
  ASSUME clock \in Nat, NEW now \in Moments, NEW day \in Days, NEW written, Orderly(written),
         PartiesFit(written, config.tables),
         ServedBut(written, {day}, config.tables, blocks', clock),
         bookings' \in ReconciledShift(written, day, config.tables, blocks', now),
         UNCHANGED <<config, clock>>
  PROVE  AllServed'
<1>1. now \in Int /\ clock \in Int /\ now <= clock
  BY DEF Moments
<1>2. /\ PartiesFit(bookings', config.tables)
      /\ ServedBut(bookings', {day} \ {day}, config.tables, blocks', clock)
  BY <1>1, ShiftServes
<1>3. {day} \ {day} = {}
  OBVIOUS
<1> HIDE DEF Moments
<1>4. ServedBut(bookings', {}, config.tables, blocks', clock)
  BY <1>2, <1>3
<1> QED
  BY <1>2, <1>4, ServedAfter DEF AllServed

\* An operation that writes one row and reconciles its evening.
LEMMA RowServes ==
  ASSUME IInv, AllServed, NEW now \in Moments, NEW i \in Ids, NEW row \in Row,
         row.service_day = bookings[i].service_day,
         row.table # NoTable =>
           row.table \in Tables /\ row.party_size <= config.tables[row.table].seats,
         Orderly([bookings EXCEPT ![i] = row]),
         bookings' \in ReconciledShift([bookings EXCEPT ![i] = row], row.service_day,
                                       config.tables, blocks, now),
         UNCHANGED <<blocks, config, clock>>
  PROVE  AllServed'
<1> DEFINE written == [bookings EXCEPT ![i] = row]
           day == row.service_day
<1>1. bookings \in [Ids -> Row] /\ InShift(bookings) /\ clock \in Nat /\ day \in Days
  BY InvariantParts DEF Typed, Row, Orderly
<1>2. written \in [Ids -> Row] /\ \A j \in Ids : written[j] = IF j = i THEN row ELSE bookings[j]
  BY <1>1
<1> HIDE DEF written
<1>3. PartiesFit(written, config.tables)
  BY <1>2 DEF PartiesFit, AllServed
<1>4. ServedBut(written, {day}, config.tables, blocks, clock)
  <2>1. ServedBut(bookings, {}, config.tables, blocks, clock) /\ {} \subseteq {day}
    BY ServedRows DEF AllServed
  <2>2. \A k \in Ids : \/ written[k] = bookings[k]
                       \/ /\ written[k].service_day \in {day}
                          /\ Occupies(bookings[k]) => bookings[k].service_day \in {day}
    BY <1>2
  <2> QED
    BY <1>1, <1>2, <2>1, <2>2, StillServed
<1> QED
  BY <1>1, <1>3, <1>4, ReconcilingServes DEF written

LEMMA CreateBookingServes ==
  ASSUME IInv, AllServed, NEW id \in Ids, NEW user \in Guests \cup {NoGuest},
         NEW day \in Days, NEW minutes, NEW party \in Nat, NEW chosen, NEW now \in Moments,
         CreateBooking(id, user, day, minutes, party, chosen, now)
  PROVE  AllServed'
<1> DEFINE replacing == ReplacedOn(Running(bookings, user, now), bookings, day, now)
           window == WindowOf(config, day, minutes)
           evenings == {bookings[i].service_day : i \in replacing}
           left(d) == {e \in evenings : d <= e}
           good(d) == {b \in [Ids -> Row] :
                         /\ Orderly(b) /\ PartiesFit(b, config.tables)
                         /\ ServedBut(b, left(d), config.tables, blocks, clock)}
           S == [d \in 0 .. LastDay + 1 |-> good(d)]
<1>1. /\ bookings \in [Ids -> Row] /\ InShift(bookings)
      /\ now \in Nat /\ now \in Int /\ clock \in Int /\ now <= clock
  BY InvariantParts DEF Typed, Moments, Orderly
<1>2. PICK table : BookingWrites(id, user, day, minutes, party, now, table)
  BY <1>1, BookingWritten
<1> DEFINE row == NewRow(table, day, window, party, user, "confirmed")
           written == Taken(id, row, replacing)
           q == [party_size |-> party, window |-> row.window, service_day |-> day,
                 tables |-> config.tables, bookings |-> Around(bookings, day),
                 blocks |-> BlocksAround(blocks, day), ignoring |-> replacing]
<1>3. /\ Orderly(written) /\ table \in FreeTables(q) /\ replacing \subseteq Ids
      /\ bookings' \in AfterReplacing(written, evenings, now)
  BY <1>2 DEF BookingWrites
<1>4. UNCHANGED <<blocks, config, clock>> /\ bookings[id].status = "absent"
  BY DEF CreateBooking
<1>5. table \in Tables /\ party <= config.tables[table].seats
  <2>1. q.party_size = party /\ q.tables = config.tables
    OBVIOUS
  <2> HIDE DEF q
  <2> QED
    BY <1>3, <2>1, FreeIsSound
<1>6. \A j \in Ids : written[j] =
         IF j = id THEN row
         ELSE IF j \in replacing THEN [bookings[j] EXCEPT !.status = "cancelled"]
         ELSE bookings[j]
  BY DEF Taken
<1>7. row.table = table /\ row.party_size = party
  BY DEF NewRow
<1>8. \A j \in Ids : LET b == [bookings[j] EXCEPT !.status = "cancelled"] IN
         /\ b.table = bookings[j].table /\ b.party_size = bookings[j].party_size
         /\ b.service_day = bookings[j].service_day
  BY <1>1 DEF Row
<1>9. PartiesFit(written, config.tables)
  <2> HIDE DEF written, row, replacing
  <2> QED
    BY <1>5, <1>6, <1>7, <1>8 DEF PartiesFit, AllServed
<1>10. ServedBut(written, evenings, config.tables, blocks, clock)
  <2>1. ServedBut(bookings, {}, config.tables, blocks, clock) /\ {} \subseteq evenings
    BY ServedRows DEF AllServed
  <2>2. ~Occupies(bookings[id]) /\ table # NoTable
    BY <1>4, <1>5, OccupantsExist, TablesAreNumbered
  <2>3. \A j \in replacing : bookings[j].service_day \in evenings
    OBVIOUS
  <2>4. written \in [Ids -> Row]
    BY <1>3 DEF Orderly
  <2> HIDE DEF written, row, replacing, evenings
  <2>5. \A k \in Ids : \/ written[k] = bookings[k]
                       \/ /\ written[k].service_day \in evenings
                          /\ Occupies(bookings[k]) => bookings[k].service_day \in evenings
                       \/ ~Occupies(bookings[k]) /\ written[k].table # NoTable
    BY <1>6, <1>7, <1>8, <2>2, <2>3
  <2> QED
    BY <1>1, <2>1, <2>4, <2>5, StillServed
<1>11. evenings \subseteq Days /\ LastDay \in Nat
  BY <1>1, <1>3, CalendarAssumption DEF Row
<1> HIDE DEF evenings, written, replacing
<1>12. ASSUME NEW d \in Days, NEW b \in S[d]
       PROVE  /\ d \notin evenings => b \in S[d + 1]
              /\ d \in evenings =>
                   ReconciledShift(b, d, config.tables, blocks, now) \subseteq S[d + 1]
  <2>1. d \in 0 .. LastDay + 1 /\ d + 1 \in 0 .. LastDay + 1
    BY <1>11 DEF Days
  <2>2. /\ b \in [Ids -> Row] /\ Orderly(b) /\ PartiesFit(b, config.tables)
        /\ ServedBut(b, left(d), config.tables, blocks, clock)
    BY <2>1
  <2>3. left(d + 1) = left(d) \ {d} /\ (d \notin evenings => left(d + 1) = left(d))
    <3>1. \A e \in evenings : d + 1 <= e <=> d <= e /\ e # d
      BY <1>11 DEF Days
    <3> QED
      BY <3>1
  <2> HIDE DEF left
  <2>4. ASSUME NEW c \in ReconciledShift(b, d, config.tables, blocks, now)
        PROVE  c \in good(d + 1)
    <3>1. /\ Orderly(c) /\ PartiesFit(c, config.tables)
          /\ ServedBut(c, left(d) \ {d}, config.tables, blocks, clock)
      BY <1>1, <2>2, ShiftServes
    <3> QED
      BY <3>1, <2>3 DEF Orderly
  <2>5. d \notin evenings => b \in good(d + 1)
    BY <2>2, <2>3
  <2> HIDE DEF good
  <2> QED
    BY <2>1, <2>4, <2>5
<1>13. left(0) = evenings /\ left(LastDay + 1) = {}
  <2>1. \A e \in evenings : 0 <= e /\ ~(LastDay + 1 <= e)
    BY <1>11 DEF Days
  <2> QED
    BY <2>1
<1>14. written \in S[0]
  <2>1. written \in good(0)
    BY <1>3, <1>9, <1>10, <1>13 DEF Orderly
  <2> HIDE DEF good
  <2> QED
    BY <2>1, <1>11
<1> HIDE DEF S
<1>15. bookings' \in S[LastDay + 1]
  BY <1>3, <1>12, <1>14, EveningByEvening
<1>16. bookings' \in good(LastDay + 1)
  BY <1>11, <1>15 DEF S
<1> QED
  BY <1>4, <1>13, <1>16, ServedAfter DEF AllServed

LEMMA SetAttendanceServes ==
  ASSUME IInv, AllServed, NEW i \in Ids, NEW attendance \in Statuses \ {"absent"},
         NEW now \in Moments, SetAttendance(i, attendance, now)
  PROVE  AllServed'
<1> DEFINE row == [bookings[i] EXCEPT !.status = attendance,
                     !.released_at = ReleasedAt(attendance, bookings[i].window, now)]
<1>1. now \in Nat
  BY InvariantParts DEF Typed, Moments
<1>2. /\ row \in Row /\ UNCHANGED <<blocks, config, clock>> /\ bookings[i] \in Row
      /\ Orderly([bookings EXCEPT ![i] = row])
      /\ bookings' \in ReconciledShift([bookings EXCEPT ![i] = row], row.service_day,
                                       config.tables, blocks, now)
  BY <1>1, AttendanceWritten DEF AttendanceWrites
<1>3. /\ row.service_day = bookings[i].service_day
      /\ row.table = bookings[i].table /\ row.party_size = bookings[i].party_size
  BY <1>2 DEF Row
<1> HIDE DEF row
<1>4. row.table # NoTable =>
       row.table \in Tables /\ row.party_size <= config.tables[row.table].seats
  BY <1>3 DEF AllServed, PartiesFit
<1> QED
  BY <1>2, <1>3, <1>4, RowServes

LEMMA MoveBookingServes ==
  ASSUME IInv, AllServed, NEW i \in Ids, NEW minutes, NEW party \in Nat, NEW chosen,
         NEW now \in Moments, MoveBooking(i, minutes, party, chosen, now)
  PROVE  AllServed'
<1> DEFINE b == bookings[i]
<1>1. now \in Nat
  BY InvariantParts DEF Typed, Moments
<1>2. PICK window, table : b \in Row /\ MoveWrites(i, minutes, party, now, window, table)
  BY <1>1, MoveWritten
<1> DEFINE row == Moved(b, table, window, party)
           q == MoveRequest(b, i, window, party)
<1>3. row.service_day = b.service_day /\ row.table = table /\ row.party_size = party
  BY <1>2 DEF Moved, Row
<1>4. /\ row \in Row /\ table \in FreeTables(q) /\ Orderly([bookings EXCEPT ![i] = row])
      /\ bookings' \in ReconciledShift([bookings EXCEPT ![i] = row], b.service_day,
                                       config.tables, blocks, now)
  BY <1>2 DEF MoveWrites
<1>5. UNCHANGED <<blocks, config, clock>>
  BY DEF MoveBooking
<1>6. table \in Tables /\ party <= config.tables[table].seats
  <2>1. q.party_size = party /\ q.tables = config.tables
    BY DEF MoveRequest
  <2> HIDE DEF q
  <2> QED
    BY <1>4, <2>1, FreeIsSound
<1> HIDE DEF row, q
<1> QED
  BY <1>3, <1>4, <1>5, <1>6, RowServes

LEMMA CancelLockedServes ==
  ASSUME IInv, AllServed, NEW i \in Ids, NEW noticed, NEW now \in Moments,
         CancelLocked(i, noticed, now)
  PROVE  AllServed'
<1> DEFINE row == [bookings[i] EXCEPT !.status = "cancelled"]
<1>1. bookings[i] \in Row
  BY InvariantParts DEF Typed
<1>2. /\ row \in Row /\ row.service_day = bookings[i].service_day
      /\ row.table = bookings[i].table /\ row.party_size = bookings[i].party_size
  BY <1>1 DEF Row, Statuses
<1>3. /\ bookings' \in ReconciledShift([bookings EXCEPT ![i] = row], bookings[i].service_day,
                                       config.tables, blocks, now)
      /\ UNCHANGED <<blocks, config, clock>>
  BY DEF CancelLocked
<1>4. Orderly([bookings EXCEPT ![i] = row])
  BY CancelWritten DEF CancelLocked
<1> HIDE DEF row
<1>5. row.table # NoTable =>
       row.table \in Tables /\ row.party_size <= config.tables[row.table].seats
  BY <1>2 DEF AllServed, PartiesFit
<1> QED
  BY <1>2, <1>3, <1>4, <1>5, RowServes

\* A walk-in takes a table, and leaves everybody else what they had.
LEMMA SeatWalkInServes ==
  ASSUME IInv, AllServed, NEW id \in Ids, NEW day \in Days, NEW party \in Nat,
         NEW chosen, NEW now \in Moments, SeatWalkIn(id, day, party, chosen, now), IInv'
  PROVE  AllServed'
<1> DEFINE window == WalkInWindow(config, day, now)
           q == [party_size |-> party, window |-> window, service_day |-> day,
                 tables |-> config.tables, bookings |-> Around(bookings, day),
                 blocks |-> BlocksAround(blocks, day), ignoring |-> {}]
<1>1. bookings \in [Ids -> Row] /\ InShift(bookings) /\ bookings' \in [Ids -> Row]
  BY InvariantParts DEF Typed, Orderly
<1>2. PICK table \in FreeTables(q) :
        bookings' = [bookings EXCEPT ![id] = NewRow(table, day, window, party, NoGuest, "arrived")]
  BY DEF SeatWalkIn, SeatOf
<1> DEFINE row == NewRow(table, day, window, party, NoGuest, "arrived")
<1>3. UNCHANGED <<blocks, config, clock>> /\ bookings[id].status = "absent"
  BY DEF SeatWalkIn
<1>4. table \in Tables /\ party <= config.tables[table].seats
  <2>1. q.party_size = party /\ q.tables = config.tables
    OBVIOUS
  <2> HIDE DEF q
  <2> QED
    BY <1>2, <2>1, FreeIsSound
<1>5. \A j \in Ids : bookings'[j] = IF j = id THEN row ELSE bookings[j]
  BY <1>1, <1>2
<1>6. row.table = table /\ row.party_size = party
  BY DEF NewRow
<1> HIDE DEF row
<1>7. PartiesFit(bookings', config.tables)
  BY <1>4, <1>5, <1>6 DEF PartiesFit, AllServed
<1>8. ServedBut(bookings', {}, config.tables, blocks, clock)
  <2>1. ServedBut(bookings, {}, config.tables, blocks, clock)
    BY ServedRows DEF AllServed
  <2>2. ~Occupies(bookings[id]) /\ table # NoTable
    BY <1>3, <1>4, OccupantsExist, TablesAreNumbered
  <2>3. \A k \in Ids : \/ bookings'[k] = bookings[k]
                       \/ ~Occupies(bookings[k]) /\ bookings'[k].table # NoTable
    BY <1>5, <1>6, <2>2
  <2> QED
    BY <1>1, <2>1, <2>3, StillServed
<1> QED
  BY <1>3, <1>7, <1>8, ServedAfter DEF AllServed

LEMMA ReconcileShiftServes ==
  ASSUME IInv, AllServed, NEW day \in Days, NEW now \in Moments, ReconcileShift(day, now)
  PROVE  AllServed'
<1>1. Orderly(bookings) /\ clock \in Nat
  BY InvariantParts DEF Typed
<1>2. UNCHANGED <<blocks, config, clock>>
  BY DEF ReconcileShift
<1>3. ServedBut(bookings, {day}, config.tables, blocks', clock)
  BY <1>2, ServedRows DEF ServedBut, AllServed
<1> QED
  BY <1>1, <1>2, <1>3, ReconcilingServes DEF ReconcileShift, AllServed

LEMMA ClosingServes ==
  ASSUME IInv, AllServed, NEW day \in Days, NEW asked, NEW now \in Moments,
         BlockTables(day, asked, now) \/ UnblockTables(day, asked, now)
  PROVE  AllServed'
<1>1. Orderly(bookings) /\ clock \in Nat
  BY InvariantParts DEF Typed
<1>2. /\ UNCHANGED <<config, clock>>
      /\ bookings' \in ReconciledShift(bookings, day, config.tables, blocks', now)
      /\ \A k : k[2] # day => (k \in blocks' <=> k \in blocks)
  BY DEF BlockTables, UnblockTables
<1>3. ServedBut(bookings, {day}, config.tables, blocks', clock)
  <2>1. ASSUME NEW j \in Ids, bookings[j].service_day # day, NEW t \in Tables,
               CouldHave(t, j, bookings, config.tables, blocks')
        PROVE  CouldHave(t, j, bookings, config.tables, blocks)
    <3>1. <<t, bookings[j].service_day>> \in blocks =>
            <<t, bookings[j].service_day>> \in blocks'
      BY <1>2, <2>1
    <3> QED
      BY <2>1, <3>1 DEF CouldHave
  <2>2. ServedBut(bookings, {}, config.tables, blocks, clock)
    BY ServedRows DEF AllServed
  <2> QED
    BY <2>1, <2>2 DEF ServedBut, Served
<1> QED
  BY <1>1, <1>2, <1>3, ReconcilingServes DEF AllServed

\* No save takes seats from a table.
SeatsGrow == \A t \in Tables : config.tables[t].seats <= config'.tables[t].seats

LEMMA SaveServes ==
  ASSUME IInv, AllServed, NEW now \in Moments, NEW draft \in Drafts, SaveSettings(draft, now),
         SeatsGrow, IInv'
  PROVE  AllServed'
<1> DEFINE cfg == Resolve(draft, config)
           loaded == {j \in Ids : IsLive(bookings[j]) /\ now < bookings[j].window.end}
           closed == {k \in blocks : CurrentServiceDay(cfg, now) - 1 <= k[2]}
<1>1. PICK seat \in Reseatings([i \in loaded |-> bookings[i]], cfg.tables, closed, now) :
        bookings' = Reseated(bookings, seat, DOMAIN seat)
  BY DEF SaveSettings, SavedRooms, ReconciledFrom, Unfinished
<1>2. /\ bookings \in [Ids -> Row] /\ InShift(bookings)
      /\ clock \in Nat /\ now \in Nat /\ now \in Int /\ clock \in Int /\ now <= clock
      /\ config \in ConfigType
  BY InvariantParts DEF Typed, Moments, Orderly
<1>3. config' = cfg /\ blocks' = blocks /\ clock' = clock /\ cfg \in ConfigType
  BY InvariantParts DEF SaveSettings, Typed
<1>4. loaded \in SUBSET Ids /\ closed \subseteq blocks
  OBVIOUS
<1>5. \A i \in Ids : ~HasFinished(bookings[i], clock) => i \in loaded
  <2>1. \A i \in Ids : bookings[i] \in Row
                       /\ (bookings[i].status # "absent" => InItsShift(bookings[i]))
    BY <1>2 DEF InShift
  <2> QED
    BY <1>2, <2>1, RunningIsLoaded
<1> HIDE DEF cfg, loaded, closed
<1>6. PartiesFit(bookings, cfg.tables)
  <2>1. \A t \in Tables : /\ config.tables[t].seats <= cfg.tables[t].seats
                          /\ config.tables[t].seats \in Nat /\ cfg.tables[t].seats \in Nat
    BY <1>2, <1>3 DEF SeatsGrow, ConfigType
  <2>2. \A i \in Ids : bookings[i].party_size \in Nat
    BY <1>2 DEF Row
  <2> QED
    BY <2>1, <2>2 DEF PartiesFit, AllServed
<1>7. PartiesFit(bookings', cfg.tables)
  BY <1>1, <1>2, <1>4, <1>6, ReseatedFits
<1>8. ASSUME NEW i \in Ids
      PROVE  Served(i, bookings', cfg.tables, blocks, clock)
  <2>1. CASE i \in loaded
    BY <1>1, <1>2, <1>4, <1>6, <2>1, ReseatedIsServed
  <2>2. CASE i \notin loaded
    <3>1. SameButTable(bookings[i], bookings'[i])
      BY <1>2, SaveReconciles DEF Reconciles
    <3>2. HasFinished(bookings'[i], clock)
      BY <1>5, <2>2, <3>1, SameHeld
    <3> QED
      BY <3>2 DEF Served
  <2> QED
    BY <2>1, <2>2
<1>9. ServedBut(bookings', {}, cfg.tables, blocks, clock)
  BY <1>8 DEF ServedBut
<1> QED
  BY <1>3, <1>7, <1>9, ServedAfter DEF AllServed

LEMMA TickServes ==
  ASSUME IInv, AllServed, Tick
  PROVE  AllServed'
<1>1. bookings \in [Ids -> Row] /\ clock \in Int /\ clock + 1 \in Int
  BY InvariantParts DEF Typed
<1>2. UNCHANGED <<bookings, blocks, config>> /\ clock' = clock + 1
  BY DEF Tick
<1>3. \A i \in Ids : HasFinished(bookings[i], clock) => HasFinished(bookings[i], clock + 1)
  BY <1>1, FinishedForGood
<1>4. ServedBut(bookings, {}, config.tables, blocks, clock)
  BY ServedRows DEF AllServed
<1>5. ServedBut(bookings, {}, config.tables, blocks, clock + 1)
  BY <1>3, <1>4 DEF ServedBut, Served
<1> QED
  BY <1>2, <1>5, ServedAfter DEF AllServed

LEMMA InitServes ==
  ASSUME Init
  PROVE  AllServed
<1>1. \A i \in Ids : bookings[i].table = NoTable /\ HasFinished(bookings[i], clock)
  BY DEF Init, HasFinished, Occupies, IsLive, NoRow
<1> QED
  BY <1>1 DEF AllServed, PartiesFit, NoStrandedOrphan, RunningNow

LEMMA StepServes ==
  ASSUME IInv, AllServed, [Next]_vars, SeatsGrow
  PROVE  AllServed'
<1>1. Unused \subseteq Ids /\ Live \subseteq Ids /\ Parties \subseteq Nat
  BY RoomAssumption DEF Unused, Live
<1>2. IInv'
  BY StepKeeps
<1>3. CASE StaffBooks
  BY <1>1, <1>3, CreateBookingServes DEF StaffBooks, StaffBook
<1>4. CASE GuestBooks
  <2>1. \A g \in Guests : promise[g].day \in Days
    BY InvariantParts DEF Typed
  <2> QED
    BY <1>1, <1>4, <2>1, CreateBookingServes DEF GuestBooks, GuestBook
<1>5. CASE WalksIn
  BY <1>1, <1>2, <1>5, SeatWalkInServes DEF WalksIn
<1>6. CASE StaffMark
  <2>1. {"confirmed", "arrived", "no_show", "left"} \subseteq Statuses \ {"absent"}
    BY DEF Statuses
  <2> QED
    BY <1>1, <1>6, <2>1, SetAttendanceServes DEF StaffMark
<1>7. CASE StaffMove
  BY <1>1, <1>7, MoveBookingServes DEF StaffMove
<1>8. CASE StaffCancels \/ GuestCancels \/ GuestTapsReminder
  <2>1. PICK now \in Moments, i \in Live, noticed \in BOOLEAN : CancelLocked(i, noticed, now)
    BY <1>8 DEF StaffCancels, StaffCancel, GuestCancels, GuestCancel,
                GuestTapsReminder, CancelReminded
  <2> QED
    BY <1>1, <2>1, CancelLockedServes
<1>9. CASE StaffReconcile
  BY <1>9, ReconcileShiftServes DEF StaffReconcile
<1>10. CASE StaffClose \/ StaffReopen
  <2>1. PICK now \in Moments, day \in Days, asked \in SUBSET Tables :
          BlockTables(day, asked, now) \/ UnblockTables(day, asked, now)
    BY <1>10 DEF StaffClose, StaffReopen
  <2> QED
    BY <2>1, ClosingServes
<1>11. CASE ManagerSaves
  BY <1>2, <1>11, SaveServes DEF ManagerSaves
<1>12. CASE Tick
  BY <1>12, TickServes
<1>13. CASE GuestReads \/ SaveIsLost \/ WorkerDelivers \/ UNCHANGED vars
  <2>1. UNCHANGED <<bookings, blocks, config, clock>>
    BY <1>13 DEF GuestReads, ReadOffer, SaveIsLost, SaveSettingsLost, WorkerDelivers,
                 DeliverReminder, vars
  <2>2. ServedBut(bookings, {}, config.tables, blocks, clock)
    BY ServedRows DEF AllServed
  <2> QED
    BY <2>1, <2>2, ServedAfter DEF AllServed
<1> QED
  BY <1>3, <1>4, <1>5, <1>6, <1>7, <1>8, <1>9, <1>10, <1>11, <1>12, <1>13 DEF Next

SeatsOnlyGrow == [][SeatsGrow]_config

(***************************************************************************)
(* As long as no save takes seats from a table, no party is ever left      *)
(* without a table next to one it could have: every table that is given    *)
(* back, opened, added or made larger is offered, in the same transaction, *)
(* to whoever the room owes one; also when the guest's new booking gives   *)
(* up several evenings at once.                                            *)
(***************************************************************************)
THEOREM NobodyIsStranded == SeatsOnlyGrow /\ Spec => []NoStrandedOrphan
<1>1. Init => AllServed
  BY InitServes
<1>2. IInv /\ AllServed /\ [Next]_vars /\ [SeatsGrow]_config => AllServed'
  <2> SUFFICES ASSUME IInv, AllServed, [Next]_vars, [SeatsGrow]_config
               PROVE  AllServed'
    OBVIOUS
  <2>1. SeatsGrow
    <3>1. CASE config' = config
      <4>1. \A t \in Tables : config.tables[t].seats \in Nat
        BY InvariantParts DEF Typed, ConfigType
      <4> QED
        BY <3>1, <4>1 DEF SeatsGrow
    <3> QED
      BY <3>1
  <2> QED
    BY <2>1, StepServes
<1>3. AllServed => NoStrandedOrphan
  BY DEF AllServed
<1> QED
  BY <1>1, <1>2, <1>3, InvariantHolds, PTL DEF Spec, SeatsOnlyGrow
=============================================================================
