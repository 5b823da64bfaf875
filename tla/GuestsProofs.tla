---------------------------- MODULE GuestsProofs ----------------------------
(***************************************************************************)
(* What a guest may hold and is told, for every value of the constants of  *)
(* the room.                                                               *)
(***************************************************************************)
EXTENDS EveningProofs

-----------------------------------------------------------------------------
(***************************************************************************)
(* Holdings: one running booking an evening, one plan, and a rebooking     *)
(* that drops exactly what the guest's screen promised.                    *)
(*                                                                         *)
(* The rules are decided with the handler's clock reading, which may be    *)
(* old; the invariants speak of the real time.  They hold because time     *)
(* only takes bookings away: what runs later ran before, and what is a     *)
(* plan later was a plan before.                                           *)
(***************************************************************************)

\* Two bookings one guest may hold together.
Apart(a, b, at) == a.service_day # b.service_day /\ ~(IsPlan(a, at) /\ IsPlan(b, at))

HoldingsApart(book, at) ==
  \A g \in Guests : \A i, j \in Running(book, g, at) : i # j => Apart(book[i], book[j], at)

Holdings == HoldingsApart(bookings, clock)

-----------------------------------------------------------------------------
(***************************************************************************)
(* Time and reconciliation.                                                *)
(***************************************************************************)
LEMMA PlansOnlyBegin ==
  ASSUME NEW b \in Row, NEW now \in Int, NEW later \in Int, now <= later, IsPlan(b, later)
  PROVE  IsPlan(b, now)
BY FinishedForGood DEF IsPlan, Rebooking

LEMMA RunningBefore ==
  ASSUME NEW book \in [Ids -> Row], NEW user, NEW now \in Int, NEW later \in Int, now <= later
  PROVE  Running(book, user, later) \subseteq Running(book, user, now)
BY FinishedForGood DEF Running

LEMMA ApartLater ==
  ASSUME NEW a \in Row, NEW b \in Row, NEW now \in Int, NEW later \in Int, now <= later,
         Apart(a, b, now)
  PROVE  Apart(a, b, later)
BY PlansOnlyBegin DEF Apart

LEMMA HoldingsApartLater ==
  ASSUME NEW book \in [Ids -> Row], NEW now \in Int, NEW later \in Int, now <= later,
         HoldingsApart(book, now)
  PROVE  HoldingsApart(book, later)
<1> SUFFICES ASSUME NEW g \in Guests, NEW i \in Running(book, g, later),
                    NEW j \in Running(book, g, later), i # j
             PROVE  Apart(book[i], book[j], later)
  BY DEF HoldingsApart
<1>1. i \in Running(book, g, now) /\ j \in Running(book, g, now)
  BY RunningBefore
<1>2. book[i] \in Row /\ book[j] \in Row
  BY DEF Running
<1>3. Apart(book[i], book[j], now)
  BY <1>1 DEF HoldingsApart
<1> QED
  BY <1>2, <1>3, ApartLater

LEMMA ReconciledHoldings ==
  ASSUME NEW old, NEW new, NEW now, Reconciles(old, new, now), NEW at, HoldingsApart(old, at)
  PROVE  HoldingsApart(new, at)
<1>1. ASSUME NEW i \in Ids
      PROVE  /\ HasFinished(new[i], at) <=> HasFinished(old[i], at)
             /\ Rebooking(new[i], at) = Rebooking(old[i], at)
             /\ new[i].user = old[i].user /\ new[i].service_day = old[i].service_day
  <2>1. SameButTable(old[i], new[i])
    BY DEF Reconciles
  <2> QED
    BY <2>1, SameHeld DEF SameButTable
<1>2. \A g \in Guests : Running(new, g, at) = Running(old, g, at)
  BY <1>1 DEF Running
<1>3. \A g \in Guests : Running(old, g, at) \subseteq Ids
  BY DEF Running
<1>4. \A i, j \in Ids : Apart(old[i], old[j], at) => Apart(new[i], new[j], at)
  BY <1>1 DEF Apart, IsPlan
<1> QED
  BY <1>2, <1>3, <1>4 DEF HoldingsApart

(***************************************************************************)
(* Every operation writes one row that the guest may hold beside the       *)
(* others; what else it writes is cancelled.                               *)
(***************************************************************************)
LEMMA OneRowChecked ==
  ASSUME Holdings, NEW written, NEW id \in Ids, NEW now,
         \A j \in Ids \ {id} : written[j] = bookings[j] \/ ~IsLive(written[j]),
         \A g \in Guests : id \in Running(written, g, clock) =>
            \A j \in Running(written, g, clock) \ {id} : Apart(written[id], written[j], clock),
         Reconciles(written, bookings', now), clock' = clock
  PROVE  Holdings'
<1>1. HoldingsApart(written, clock)
  <2> SUFFICES ASSUME NEW g \in Guests, NEW i \in Running(written, g, clock),
                      NEW j \in Running(written, g, clock), i # j
               PROVE  Apart(written[i], written[j], clock)
    BY DEF HoldingsApart
  <2>1. CASE i = id
    BY <2>1
  <2>2. CASE j = id
    <3>1. Apart(written[j], written[i], clock)
      BY <2>2
    <3> QED
      BY <3>1 DEF Apart
  <2>3. CASE i # id /\ j # id
    <3>1. \A k \in Running(written, g, clock) :
             k # id => written[k] = bookings[k] /\ k \in Running(bookings, g, clock)
      BY DEF Running, HasFinished, Occupies
    <3> QED
      BY <3>1, <2>3 DEF Holdings, HoldingsApart
  <2> QED
    BY <2>1, <2>2, <2>3
<1> QED
  BY <1>1, ReconciledHoldings DEF Holdings

\* The check after a write, made with an old clock reading, holds now.
LEMMA AllowedIsApart ==
  ASSUME NEW written \in [Ids -> Row], NEW i \in Ids, NEW now \in Int, clock \in Int,
         now <= clock, HoldingsAllowed(written, i, now),
         NEW g \in Guests, i \in Running(written, g, clock),
         NEW j \in Running(written, g, clock) \ {i}
  PROVE  Apart(written[i], written[j], clock)
<1>1. written[i].user = g
  BY DEF Running
<1>2. i \in Running(written, g, now) /\ j \in Running(written, g, now) \ {i}
  BY RunningBefore
<1>3. Apart(written[i], written[j], now)
  BY <1>1, <1>2 DEF HoldingsAllowed, HoldingConflict, Apart
<1>4. written[i] \in Row /\ written[j] \in Row
  BY DEF Running
<1> QED
  BY <1>3, <1>4, ApartLater

-----------------------------------------------------------------------------
(***************************************************************************)
(* The operations.                                                         *)
(***************************************************************************)

\* What a booking leaves beside it is of another evening and no plan.
LEMMA NotReplacedIsApart ==
  ASSUME NEW user, NEW day, NEW now, ~RefusedOn(Running(bookings, user, now), bookings, day, now),
         NEW j \in Running(bookings, user, now),
         j \notin ReplacedOn(Running(bookings, user, now), bookings, day, now)
  PROVE  bookings[j].service_day # day /\ ~IsPlan(bookings[j], now)
<1>1. ~HasFinished(bookings[j], now)
  BY DEF Running
<1>2. Rebooking(bookings[j], now) # "any_evening"
  BY DEF ReplacedOn
<1>3. CASE bookings[j].service_day = day
  <2>1. Rebooking(bookings[j], now) = "none"
    BY <1>2, <1>3 DEF ReplacedOn, Rebooking
  <2>2. HoldsEvening(bookings[j], now)
    BY <1>1, <2>1 DEF HoldsEvening
  <2> QED
    BY <2>2, <1>3 DEF RefusedOn
<1> QED
  BY <1>2, <1>3 DEF IsPlan

LEMMA CreateBookingHolds ==
  ASSUME IInv, Holdings, NEW id \in Ids, NEW user \in Guests \cup {NoGuest}, NEW day \in Days,
         NEW minutes, NEW party \in Nat, NEW chosen, NEW now \in Moments,
         CreateBooking(id, user, day, minutes, party, chosen, now)
  PROVE  Holdings'
<1> DEFINE mine == Running(bookings, user, now)
           replacing == ReplacedOn(mine, bookings, day, now)
           window == WindowOf(config, day, minutes)
<1>1. bookings \in [Ids -> Row] /\ clock \in Nat
  BY InvariantParts DEF Typed
<1>2. now \in Nat /\ now <= clock
  BY <1>1 DEF Moments
<1>3. PICK table : BookingWrites(id, user, day, minutes, party, now, table)
  BY <1>2, BookingWritten
<1> DEFINE row == NewRow(table, day, window, party, user, "confirmed")
           written == Taken(id, row, replacing)
<1>4. /\ Orderly(written)
      /\ bookings' \in AfterReplacing(written, {bookings[i].service_day : i \in replacing}, now)
  BY <1>3 DEF BookingWrites
<1>5. Reconciles(written, bookings', now)
  <2> HIDE DEF written
  <2> QED
    BY <1>4, ReplacingReconciles
<1>6. /\ clock' = clock /\ ~RefusedOn(mine, bookings, day, now)
      /\ row.user = user /\ row.service_day = day
  BY DEF CreateBooking, NewRow
<1>7. ASSUME NEW j \in Ids \ {id}
      PROVE  written[j] = bookings[j] \/ ~IsLive(written[j])
  <2>1. written[j] = IF j \in replacing THEN [bookings[j] EXCEPT !.status = "cancelled"]
                     ELSE bookings[j]
    BY DEF Taken
  <2>2. [bookings[j] EXCEPT !.status = "cancelled"].status = "cancelled"
    BY <1>1 DEF Row
  <2> HIDE DEF written, replacing
  <2> QED
    BY <2>1, <2>2 DEF IsLive
<1>8. ASSUME NEW g \in Guests, id \in Running(written, g, clock),
             NEW j \in Running(written, g, clock) \ {id}
      PROVE  Apart(written[id], written[j], clock)
  <2>1. written[id] = row /\ user = g
    <3>1. written[id] = row
      BY DEF Taken
    <3> HIDE DEF written, row
    <3> QED
      BY <3>1, <1>6, <1>8 DEF Running
  <2>2. j \in Ids \ {id} /\ written[j].user = g /\ ~HasFinished(written[j], clock)
    BY DEF Running
  <2>3. IsLive(written[j])
    BY <2>2 DEF HasFinished, Occupies
  <2>4. written[j] = bookings[j]
    BY <1>7, <2>2, <2>3
  <2>5. j \notin replacing
    <3>1. j \in replacing => written[j] = [bookings[j] EXCEPT !.status = "cancelled"]
      BY <2>2 DEF Taken
    <3>2. [bookings[j] EXCEPT !.status = "cancelled"].status = "cancelled"
      BY <1>1, <2>2 DEF Row
    <3> HIDE DEF written, replacing
    <3> QED
      BY <3>1, <3>2, <2>3 DEF IsLive
  <2>6. j \in mine
    <3>1. j \in Running(bookings, g, clock)
      <4> HIDE DEF written
      <4> QED
        BY <2>2, <2>4, RoomAssumption DEF Running
    <3> QED
      BY <3>1, <2>1, <1>1, <1>2, RunningBefore
  <2>7. bookings[j].service_day # day /\ ~IsPlan(bookings[j], now)
    BY <2>5, <2>6, <1>6, NotReplacedIsApart
  <2>8. ~IsPlan(bookings[j], clock)
    BY <2>2, <2>7, <1>1, <1>2, PlansOnlyBegin
  <2> HIDE DEF written, row
  <2> QED
    BY <2>1, <2>4, <2>7, <2>8, <1>6 DEF Apart
<1> HIDE DEF written
<1> QED
  BY <1>5, <1>6, <1>7, <1>8, OneRowChecked

\* An operation on one row that is followed by check_holdings.
LEMMA CheckedHolds ==
  ASSUME IInv, Holdings, NEW i \in Ids, NEW row \in Row, NEW now \in Moments,
         HoldingsAllowed([bookings EXCEPT ![i] = row], i, now),
         Reconciles([bookings EXCEPT ![i] = row], bookings', now), clock' = clock
  PROVE  Holdings'
<1> DEFINE written == [bookings EXCEPT ![i] = row]
<1>1. bookings \in [Ids -> Row] /\ clock \in Nat
  BY InvariantParts DEF Typed
<1>2. now \in Nat /\ now <= clock
  BY <1>1 DEF Moments
<1>3. written \in [Ids -> Row] /\ \A j \in Ids \ {i} : written[j] = bookings[j]
  BY <1>1
<1> HIDE DEF written
<1>4. \A g \in Guests : i \in Running(written, g, clock) =>
         \A j \in Running(written, g, clock) \ {i} : Apart(written[i], written[j], clock)
  <2>1. HoldingsAllowed(written, i, now)
    BY DEF written
  <2>2. now \in Int /\ clock \in Int
    BY <1>1, <1>2
  <2> QED
    BY <2>1, <2>2, <1>2, <1>3, AllowedIsApart
<1>5. Reconciles(written, bookings', now)
  BY DEF written
<1> QED
  BY <1>3, <1>4, <1>5, OneRowChecked

LEMMA SetAttendanceHolds ==
  ASSUME IInv, Holdings, NEW i \in Ids, NEW attendance \in Statuses \ {"absent"},
         NEW now \in Moments, SetAttendance(i, attendance, now)
  PROVE  Holdings'
<1> DEFINE changed == [bookings[i] EXCEPT
                         !.status = attendance,
                         !.released_at = ReleasedAt(attendance, bookings[i].window, now)]
<1>1. now \in Nat
  BY InvariantParts DEF Moments
<1>2. /\ changed \in Row /\ Orderly([bookings EXCEPT ![i] = changed])
      /\ bookings' \in ReconciledShift([bookings EXCEPT ![i] = changed], changed.service_day,
                                       config.tables, blocks, now)
      /\ clock' = clock
  BY <1>1, AttendanceWritten DEF AttendanceWrites
<1>3. HoldingsAllowed([bookings EXCEPT ![i] = changed], i, now)
  BY DEF SetAttendance
<1> HIDE DEF changed
<1>4. Reconciles([bookings EXCEPT ![i] = changed], bookings', now)
  BY <1>2, ShiftReconciles DEF Orderly
<1> QED
  BY <1>2, <1>3, <1>4, CheckedHolds

LEMMA MoveBookingHolds ==
  ASSUME IInv, Holdings, NEW i \in Ids, NEW minutes, NEW party \in Nat, NEW chosen,
         NEW now \in Moments, MoveBooking(i, minutes, party, chosen, now)
  PROVE  Holdings'
<1>1. now \in Nat
  BY InvariantParts DEF Moments
<1>2. PICK window, table : MoveWrites(i, minutes, party, now, window, table)
  BY <1>1, MoveWritten
<1> DEFINE row == Moved(bookings[i], table, window, party)
<1>3. /\ row \in Row /\ Orderly([bookings EXCEPT ![i] = row])
      /\ HoldingsAllowed([bookings EXCEPT ![i] = row], i, now)
      /\ bookings' \in ReconciledShift([bookings EXCEPT ![i] = row], bookings[i].service_day,
                                       config.tables, blocks, now)
  BY <1>2 DEF MoveWrites
<1>4. clock' = clock
  BY DEF MoveBooking
<1> HIDE DEF row
<1>5. Reconciles([bookings EXCEPT ![i] = row], bookings', now)
  BY <1>3, ShiftReconciles DEF Orderly
<1> QED
  BY <1>3, <1>4, <1>5, CheckedHolds

LEMMA SeatWalkInHolds ==
  ASSUME IInv, Holdings, NEW id \in Ids, NEW day, NEW party, NEW chosen, NEW now,
         SeatWalkIn(id, day, party, chosen, now)
  PROVE  Holdings'
<1>1. bookings \in [Ids -> Row]
  BY InvariantParts DEF Typed
<1>2. PICK table : bookings' = [bookings EXCEPT ![id] =
        NewRow(table, day, WalkInWindow(config, day, now), party, NoGuest, "arrived")]
  BY DEF SeatWalkIn
<1>3. clock' = clock
  BY DEF SeatWalkIn
<1>4. bookings'[id].user = NoGuest /\ \A j \in Ids \ {id} : bookings'[j] = bookings[j]
  BY <1>1, <1>2 DEF NewRow
<1>5. \A g \in Guests : id \notin Running(bookings', g, clock)
  BY <1>4, RoomAssumption DEF Running
<1>6. Reconciles(bookings', bookings', now)
  BY DEF Reconciles, SameButTable
<1> QED
  BY <1>3, <1>4, <1>5, <1>6, OneRowChecked

LEMMA CancelLockedHolds ==
  ASSUME IInv, Holdings, NEW i \in Ids, NEW noticed, NEW now, CancelLocked(i, noticed, now)
  PROVE  Holdings'
<1> DEFINE row == [bookings[i] EXCEPT !.status = "cancelled"]
           written == [bookings EXCEPT ![i] = row]
<1>1. bookings \in [Ids -> Row] /\ bookings[i] \in Row
  BY InvariantParts DEF Typed
<1>2. /\ clock' = clock
      /\ bookings' \in ReconciledShift([bookings EXCEPT ![i].status = "cancelled"],
                                       bookings[i].service_day, config.tables, blocks, now)
  BY DEF CancelLocked
<1>3. row.status = "cancelled" /\ row \in Row
  BY <1>1 DEF Row, Statuses
<1>4. /\ written \in [Ids -> Row] /\ written[i] = row
      /\ \A j \in Ids \ {i} : written[j] = bookings[j]
  <2> HIDE DEF row
  <2> QED
    BY <1>1, <1>3
<1> HIDE DEF written, row
<1>5. \A g \in Guests : i \notin Running(written, g, clock)
  BY <1>3, <1>4 DEF Running, HasFinished, Occupies, IsLive
<1>6. Reconciles(written, bookings', now)
  BY <1>2, <1>4, ShiftReconciles DEF written, row
<1> QED
  BY <1>2, <1>4, <1>5, <1>6, OneRowChecked

\* The operations that write no row of their own.
LEMMA ReconcilingHolds ==
  ASSUME Holdings, NEW now, Reconciles(bookings, bookings', now), clock' = clock
  PROVE  Holdings'
BY ReconciledHoldings DEF Holdings

LEMMA HoldingsInit ==
  ASSUME Init
  PROVE  Holdings
<1>1. \A g \in Guests : Running(bookings, g, clock) = {}
  BY DEF Init, Running, NoRow, HasFinished, Occupies, IsLive
<1> QED
  BY <1>1 DEF Holdings, HoldingsApart

LEMMA HoldingsStep ==
  ASSUME IInv, Holdings, [Next]_vars
  PROVE  Holdings'
<1>1. Typed /\ clock \in Nat /\ Moments \subseteq Nat /\ bookings \in [Ids -> Row]
  BY DEF IInv, TypeOK, Typed, Moments
<1>2. Unused \subseteq Ids /\ Live \subseteq Ids /\ Parties \subseteq Nat /\ NoGuest \in {NoGuest}
  BY RoomAssumption DEF Unused, Live
<1>3. CASE StaffBooks
  BY <1>1, <1>2, <1>3, CreateBookingHolds DEF StaffBooks, StaffBook
<1>4. CASE GuestBooks
  <2>1. \A g \in Guests : promise[g].day \in Days
    BY <1>1 DEF Typed
  <2> QED
    BY <2>1, <1>1, <1>2, <1>4, CreateBookingHolds DEF GuestBooks, GuestBook
<1>5. CASE WalksIn
  BY <1>2, <1>5, SeatWalkInHolds DEF WalksIn
<1>6. CASE StaffMark
  <2>1. {"confirmed", "arrived", "no_show", "left"} \subseteq Statuses \ {"absent"}
    BY DEF Statuses
  <2> QED
    BY <2>1, <1>2, <1>6, SetAttendanceHolds DEF StaffMark
<1>7. CASE StaffMove
  BY <1>2, <1>7, MoveBookingHolds DEF StaffMove
<1>8. CASE StaffCancels \/ GuestCancels \/ GuestTapsReminder
  <2>1. PICK now \in Moments, i \in Live, noticed \in BOOLEAN : CancelLocked(i, noticed, now)
    BY <1>8 DEF StaffCancels, StaffCancel, GuestCancels, GuestCancel,
                GuestTapsReminder, CancelReminded
  <2> QED
    BY <2>1, <1>2, CancelLockedHolds
<1>9. CASE StaffReconcile
  <2>1. PICK now \in Moments, day \in Days : ReconcileShift(day, now)
    BY <1>9 DEF StaffReconcile
  <2> QED
    BY <2>1, <1>1, ShiftReconciles, ReconcilingHolds DEF ReconcileShift
<1>10. CASE StaffClose
  <2>1. PICK now \in Moments, day \in Days, asked \in SUBSET Tables : BlockTables(day, asked, now)
    BY <1>10 DEF StaffClose
  <2> QED
    BY <2>1, <1>1, ShiftReconciles, ReconcilingHolds DEF BlockTables
<1>11. CASE StaffReopen
  <2>1. PICK now \in Moments, day \in Days, asked \in SUBSET Tables : UnblockTables(day, asked, now)
    BY <1>11 DEF StaffReopen
  <2> QED
    BY <2>1, <1>1, ShiftReconciles, ReconcilingHolds DEF UnblockTables
<1>12. CASE ManagerSaves
  <2>1. PICK now \in Moments, draft \in Drafts : SaveSettings(draft, now)
    BY <1>12 DEF ManagerSaves
  <2>2. clock' = clock
    BY <2>1 DEF SaveSettings
  <2> QED
    BY <2>1, <2>2, <1>1, SaveReconciles, ReconcilingHolds
<1>13. CASE GuestReads \/ SaveIsLost \/ WorkerDelivers \/ UNCHANGED vars
  <2>1. bookings' = bookings /\ clock' = clock
    BY <1>13 DEF GuestReads, ReadOffer, SaveIsLost, SaveSettingsLost, WorkerDelivers,
                 DeliverReminder, vars
  <2> QED
    BY <2>1, ReconcilingHolds DEF Reconciles, SameButTable
<1>14. CASE Tick
  <2>1. bookings' = bookings /\ clock' = clock + 1
    BY <1>14 DEF Tick
  <2>2. HoldingsApart(bookings, clock + 1)
    BY <1>1, HoldingsApartLater DEF Holdings
  <2> QED
    BY <2>1, <2>2 DEF Holdings, HoldingsApart, Running
<1> QED
  BY <1>3, <1>4, <1>5, <1>6, <1>7, <1>8, <1>9, <1>10, <1>11, <1>12, <1>13, <1>14 DEF Next

LEMMA HoldingsHold == Spec => []Holdings
BY InvariantHolds, HoldingsInit, HoldingsStep, PTL DEF Spec

(***************************************************************************)
(* A guest never holds two running bookings of one evening, whoever took,  *)
(* moved or restored them and however old the clock reading that allowed   *)
(* it.                                                                     *)
(***************************************************************************)
THEOREM OneEvening == Spec => []OneEveningPerGuest
<1>1. Holdings => OneEveningPerGuest
  BY DEF Holdings, HoldingsApart, Apart, OneEveningPerGuest
<1> QED
  BY <1>1, HoldingsHold, PTL

(***************************************************************************)
(* Nor two plans: two confirmed bookings that have not begun.              *)
(***************************************************************************)
THEOREM OnePlan == Spec => []OnePlanPerGuest
<1>1. Holdings => OnePlanPerGuest
  BY DEF Holdings, HoldingsApart, Apart, OnePlanPerGuest
<1> QED
  BY <1>1, HoldingsHold, PTL

-----------------------------------------------------------------------------
(***************************************************************************)
(* Rebooking.                                                              *)
(***************************************************************************)

\* Only a booking brings a row of a guest to life.
BringsNobody(written) ==
  \A i \in Ids : IsLive(written[i]) => IsLive(bookings[i]) \/ written[i].user \notin Guests

LEMMA NobodyBooked ==
  ASSUME NEW written, NEW now, BringsNobody(written), Reconciles(written, bookings', now),
         NEW g \in Guests
  PROVE  Booked(g) = {}
<1> SUFFICES ASSUME NEW i \in Booked(g)
             PROVE  FALSE
  OBVIOUS
<1>1. i \in Ids /\ ~IsLive(bookings[i]) /\ bookings'[i].user = g /\ IsLive(bookings'[i])
  BY DEF Booked
<1>2. IsLive(written[i]) /\ written[i].user = g
  BY <1>1 DEF Reconciles, SameButTable, IsLive
<1> QED
  BY <1>1, <1>2 DEF BringsNobody

LEMMA OneRowBringsNobody ==
  ASSUME bookings \in [Ids -> Row], NEW i \in Ids, NEW row,
         IsLive(row) => IsLive(bookings[i]) \/ row.user \notin Guests
  PROVE  BringsNobody([bookings EXCEPT ![i] = row])
BY DEF BringsNobody

\* A booking drops what it replaces, and brings one row of its own guest.
LEMMA CreateBookingKeepsWord ==
  ASSUME IInv, NEW id \in Ids, NEW user \in Guests \cup {NoGuest}, NEW day \in Days,
         NEW minutes, NEW party \in Nat, NEW chosen, NEW now \in Nat,
         CreateBooking(id, user, day, minutes, party, chosen, now),
         NEW g \in Guests, Booked(g) # {}
  PROVE  /\ Dropped(g) = promise[g].replacing
         /\ \A i \in Dropped(g) : bookings[i].status \in {"confirmed", "no_show"}
<1> DEFINE mine == Running(bookings, user, now)
           replacing == ReplacedOn(mine, bookings, day, now)
           window == WindowOf(config, day, minutes)
<1>1. bookings \in [Ids -> Row]
  BY InvariantParts DEF Typed
<1>2. PICK table : BookingWrites(id, user, day, minutes, party, now, table)
  BY BookingWritten
<1> DEFINE row == NewRow(table, day, window, party, user, "confirmed")
           written == Taken(id, row, replacing)
<1>3. /\ Orderly(written)
      /\ bookings' \in AfterReplacing(written, {bookings[i].service_day : i \in replacing}, now)
  BY <1>2 DEF BookingWrites
<1>4. Reconciles(written, bookings', now)
  <2> HIDE DEF written
  <2> QED
    BY <1>3, ReplacingReconciles
<1>5. /\ bookings[id].status = "absent" /\ PromiseKept(user, replacing)
      /\ row.user = user /\ IsLive(row)
  BY DEF CreateBooking, NewRow, IsLive
<1>6. ASSUME NEW i \in Ids
      PROVE  /\ i = id => written[i] = row
             /\ i # id /\ i \in replacing => ~IsLive(written[i])
             /\ i # id /\ i \notin replacing => written[i] = bookings[i]
  <2>1. written[i] = IF i = id THEN row
                     ELSE IF i \in replacing THEN [bookings[i] EXCEPT !.status = "cancelled"]
                     ELSE bookings[i]
    BY DEF Taken
  <2>2. [bookings[i] EXCEPT !.status = "cancelled"].status = "cancelled"
    BY <1>1 DEF Row
  <2> HIDE DEF written, replacing, row
  <2> QED
    BY <2>1, <2>2 DEF IsLive
<1>7. ASSUME NEW i \in Ids
      PROVE  /\ IsLive(bookings'[i]) <=> IsLive(written[i])
             /\ bookings'[i].user = written[i].user
  BY <1>4 DEF Reconciles, SameButTable, IsLive
<1>8. ASSUME NEW i \in replacing
      PROVE  /\ i \in Ids /\ bookings[i].user = user /\ IsLive(bookings[i])
             /\ bookings[i].status \in {"confirmed", "no_show"}
  <2>1. i \in mine /\ Rebooking(bookings[i], now) \in {"any_evening", "same_evening"}
    BY DEF ReplacedOn
  <2>2. i \in Ids /\ bookings[i].user = user /\ ~HasFinished(bookings[i], now)
    BY <2>1 DEF Running
  <2>3. bookings[i].status \in {"confirmed", "no_show"}
    BY <2>1 DEF Rebooking
  <2> QED
    BY <2>2, <2>3 DEF IsLive
<1>9. ~IsLive(bookings[id]) /\ id \notin replacing
  BY <1>5, <1>8 DEF IsLive
<1> HIDE DEF written, row, replacing
<1>10. user = g
  <2>1. PICK i \in Ids : ~IsLive(bookings[i]) /\ bookings'[i].user = g /\ IsLive(bookings'[i])
    BY DEF Booked
  <2>2. i = id
    BY <2>1, <1>6, <1>7
  <2> QED
    BY <2>1, <2>2, <1>5, <1>6, <1>7
<1>11. Dropped(g) = replacing
  <2>1. ASSUME NEW i \in Dropped(g)
        PROVE  i \in replacing
    <3>1. i \in Ids /\ IsLive(bookings[i]) /\ ~IsLive(bookings'[i])
      BY DEF Dropped
    <3> QED
      BY <3>1, <1>6, <1>7, <1>9
  <2>2. ASSUME NEW i \in replacing
        PROVE  i \in Dropped(g)
    <3>1. i \in Ids /\ i # id /\ bookings[i].user = g /\ IsLive(bookings[i])
      BY <1>8, <1>9, <1>10
    <3>2. ~IsLive(bookings'[i])
      BY <3>1, <1>6, <1>7
    <3> QED
      BY <3>1, <3>2 DEF Dropped
  <2> QED
    BY <2>1, <2>2
<1>12. replacing = promise[g].replacing
  BY <1>5, <1>10, RoomAssumption DEF PromiseKept
<1> QED
  BY <1>8, <1>11, <1>12

LEMMA RebookingStep ==
  ASSUME IInv, [Next]_vars, NEW g \in Guests, Booked(g) # {}
  PROVE  /\ Dropped(g) = promise[g].replacing
         /\ \A i \in Dropped(g) : bookings[i].status \in {"confirmed", "no_show"}
<1>1. Typed /\ clock \in Nat /\ Moments \subseteq Nat /\ bookings \in [Ids -> Row]
  BY DEF IInv, TypeOK, Typed, Moments
<1>2. Unused \subseteq Ids /\ Live \subseteq Ids /\ Parties \subseteq Nat /\ NoGuest \in {NoGuest}
  BY RoomAssumption DEF Unused, Live
<1>3. CASE StaffBooks
  BY <1>1, <1>2, <1>3, CreateBookingKeepsWord DEF StaffBooks, StaffBook
<1>4. CASE GuestBooks
  <2>1. \A h \in Guests : promise[h].day \in Days
    BY <1>1 DEF Typed
  <2> QED
    BY <2>1, <1>1, <1>2, <1>4, CreateBookingKeepsWord DEF GuestBooks, GuestBook
<1>5. ~WalksIn
  <2> SUFFICES ASSUME NEW now \in Moments, NEW id \in Unused, NEW day \in Days,
                      NEW party \in Parties, NEW chosen \in Seats,
                      SeatWalkIn(id, day, party, chosen, now)
               PROVE  FALSE
    BY DEF WalksIn
  <2>1. PICK table : bookings' = [bookings EXCEPT ![id] =
          NewRow(table, day, WalkInWindow(config, day, now), party, NoGuest, "arrived")]
    BY DEF SeatWalkIn
  <2> DEFINE row == NewRow(table, day, WalkInWindow(config, day, now), party, NoGuest, "arrived")
  <2>2. row.user \notin Guests
    BY RoomAssumption DEF NewRow
  <2> HIDE DEF row
  <2>3. BringsNobody([bookings EXCEPT ![id] = row])
    BY <2>2, <1>1, <1>2, OneRowBringsNobody
  <2>4. BringsNobody(bookings') /\ Reconciles(bookings', bookings', now)
    BY <2>1, <2>3 DEF row, Reconciles, SameButTable
  <2> QED
    BY <2>4, NobodyBooked
<1>6. ~StaffMark
  <2> SUFFICES ASSUME NEW now \in Moments, NEW i \in Live,
                      NEW attendance \in {"confirmed", "arrived", "no_show", "left"},
                      SetAttendance(i, attendance, now)
               PROVE  FALSE
    BY DEF StaffMark
  <2> DEFINE changed == [bookings[i] EXCEPT
                           !.status = attendance,
                           !.released_at = ReleasedAt(attendance, bookings[i].window, now)]
             written == [bookings EXCEPT ![i] = changed]
  <2>1. i \in Ids /\ now \in Nat /\ attendance \in Statuses \ {"absent"}
    BY <1>1, <1>2 DEF Statuses
  <2>2. /\ Orderly(written)
        /\ bookings' \in ReconciledShift(written, changed.service_day, config.tables, blocks, now)
    BY <2>1, AttendanceWritten DEF AttendanceWrites
  <2>3. IsLive(bookings[i])
    BY DEF SetAttendance
  <2> HIDE DEF changed
  <2>4. BringsNobody(written)
    BY <2>1, <2>3, <1>1, OneRowBringsNobody
  <2> HIDE DEF written
  <2>5. Reconciles(written, bookings', now)
    BY <2>2, ShiftReconciles DEF Orderly
  <2> QED
    BY <2>4, <2>5, NobodyBooked
<1>7. ~StaffMove
  <2> SUFFICES ASSUME NEW now \in Moments, NEW i \in Live, NEW minutes \in Minutes,
                      NEW party \in Parties, NEW chosen \in Seats,
                      MoveBooking(i, minutes, party, chosen, now)
               PROVE  FALSE
    BY DEF StaffMove
  <2>1. i \in Ids /\ now \in Nat /\ party \in Nat /\ IsLive(bookings[i])
    BY <1>1, <1>2 DEF Live
  <2>2. PICK window, table : MoveWrites(i, minutes, party, now, window, table)
    BY <2>1, MoveWritten
  <2> DEFINE row == Moved(bookings[i], table, window, party)
             written == [bookings EXCEPT ![i] = row]
  <2>3. /\ Orderly(written)
        /\ bookings' \in ReconciledShift(written, bookings[i].service_day, config.tables, blocks, now)
    BY <2>2 DEF MoveWrites
  <2> HIDE DEF row
  <2>4. BringsNobody(written)
    BY <2>1, <1>1, OneRowBringsNobody
  <2> HIDE DEF written
  <2>5. Reconciles(written, bookings', now)
    BY <2>3, ShiftReconciles DEF Orderly
  <2> QED
    BY <2>4, <2>5, NobodyBooked
<1>8. ~(StaffCancels \/ GuestCancels \/ GuestTapsReminder)
  <2> SUFFICES ASSUME StaffCancels \/ GuestCancels \/ GuestTapsReminder
               PROVE  FALSE
    OBVIOUS
  <2>1. PICK now \in Moments, i \in Live, noticed \in BOOLEAN : CancelLocked(i, noticed, now)
    BY DEF StaffCancels, StaffCancel, GuestCancels, GuestCancel, GuestTapsReminder, CancelReminded
  <2> DEFINE row == [bookings[i] EXCEPT !.status = "cancelled"]
             written == [bookings EXCEPT ![i] = row]
  <2>2. /\ i \in Ids /\ IsLive(bookings[i])
        /\ bookings' \in ReconciledShift([bookings EXCEPT ![i].status = "cancelled"],
                                         bookings[i].service_day, config.tables, blocks, now)
    BY <2>1 DEF CancelLocked, Live
  <2>3. row \in Row
    BY <1>1, <2>2 DEF Row, Statuses
  <2> HIDE DEF row
  <2>4. BringsNobody(written) /\ written \in [Ids -> Row]
    BY <2>2, <2>3, <1>1, OneRowBringsNobody
  <2> HIDE DEF written
  <2>5. Reconciles(written, bookings', now)
    BY <2>2, <2>4, ShiftReconciles DEF written, row
  <2> QED
    BY <2>4, <2>5, NobodyBooked
<1>9. ASSUME NEW now, Reconciles(bookings, bookings', now)
      PROVE  FALSE
  BY <1>9, NobodyBooked DEF BringsNobody
<1>10. ~(StaffReconcile \/ StaffClose \/ StaffReopen)
  <2> SUFFICES ASSUME StaffReconcile \/ StaffClose \/ StaffReopen
               PROVE  FALSE
    OBVIOUS
  <2>1. PICK now, day, closed :
          /\ now \in Moments /\ day \in Days
          /\ bookings' \in ReconciledShift(bookings, day, config.tables, closed, now)
    BY DEF StaffReconcile, ReconcileShift, StaffClose, BlockTables, StaffReopen, UnblockTables
  <2> QED
    BY <2>1, <1>1, <1>9, ShiftReconciles
<1>11. ~ManagerSaves
  BY <1>1, <1>9, SaveReconciles DEF ManagerSaves
<1>12. ~(GuestReads \/ SaveIsLost \/ WorkerDelivers \/ Tick \/ UNCHANGED vars)
  <2> SUFFICES ASSUME bookings' = bookings
               PROVE  FALSE
    BY DEF GuestReads, ReadOffer, SaveIsLost, SaveSettingsLost, WorkerDelivers,
           DeliverReminder, Tick, vars
  <2> QED
    BY <1>9 DEF Reconciles, SameButTable
<1> QED
  BY <1>3, <1>4, <1>5, <1>6, <1>7, <1>8, <1>10, <1>11, <1>12 DEF Next

(***************************************************************************)
(* A rebooking drops exactly what the guest's screen said it would, and no *)
(* party that has sat down.                                                *)
(***************************************************************************)
THEOREM RebookingIsAsPromised == Spec => RebookingKeepsItsWord
<1>1. IInv /\ [Next]_vars =>
        [\A g \in Guests : Booked(g) # {} =>
             /\ Dropped(g) = promise[g].replacing
             /\ \A i \in Dropped(g) : bookings[i].status \in {"confirmed", "no_show"}]_vars
  BY RebookingStep
<1> QED
  BY <1>1, InvariantHolds, PTL DEF Spec, RebookingKeepsItsWord

-----------------------------------------------------------------------------
(***************************************************************************)
(* Messages: what the bot is about to tell a guest is true.                *)
(*                                                                         *)
(* The invariant needs two more facts to be inductive: nothing is queued   *)
(* about a row that was never inserted, so a new row starts with no        *)
(* message; and nothing is queued about a row of no account, so a move     *)
(* that writes to nobody leaves nothing untrue behind.                     *)
(***************************************************************************)

\* The messages about a booking agree with it.
Truthful(m, b) ==
  /\ m.reminder = "pending" =>
       IsLive(b) /\ m.hour = b.window.start /\ m.party = b.party_size
  /\ m.reminder = "sent" /\ m.hour # b.window.start => m.moved = b.window.start
  /\ m.cancelled => b.status = "cancelled"

Silent(m) == m.reminder = "none" /\ ~m.cancelled

Agree(m, b) ==
  /\ Truthful(m, b)
  /\ b.status = "absent" \/ b.user = NoGuest => Silent(m)

AllAgree(queued, book) == \A i \in Ids : Agree(queued[i], book[i])

Agreed == AllAgree(messages, bookings)

-----------------------------------------------------------------------------
(***************************************************************************)
(* What the outbox does to a message.                                      *)
(***************************************************************************)

\* A table is not part of any message.
LEMMA ReconciledAgrees ==
  ASSUME NEW queued, NEW old, NEW new, NEW now, Reconciles(old, new, now), AllAgree(queued, old)
  PROVE  AllAgree(queued, new)
BY DEF Reconciles, SameButTable, AllAgree, Agree, Truthful, IsLive

LEMMA AbandonedFields ==
  ASSUME NEW m \in Outbox
  PROVE  /\ Abandoned(m) \in Outbox
         /\ Abandoned(m).reminder # "pending"
         /\ Abandoned(m).moved = m.moved /\ Abandoned(m).cancelled = m.cancelled
         /\ Abandoned(m).reminder = "sent" =>
              m.reminder = "sent" /\ Abandoned(m).hour = m.hour
         /\ Silent(m) => Silent(Abandoned(m))
<1>1. CASE m.reminder = "pending"
  <2> DEFINE hour == IF "gave_up" = "sent" THEN m.hour ELSE 0
  <2>1. Abandoned(m) = [m EXCEPT !.reminder = "gave_up", !.due = 0, !.party = 0, !.hour = hour]
    BY <1>1 DEF Abandoned, Settled
  <2> HIDE DEF hour
  <2>3. Abandoned(m).reminder = "gave_up" /\ Abandoned(m).moved = m.moved
    BY <2>1 DEF Outbox
  <2>4. Abandoned(m).cancelled = m.cancelled
    BY <2>1 DEF Outbox
  <2> QED
    BY <2>3, <2>4, <1>1, AbandonedType DEF Silent
<1>2. CASE m.reminder # "pending"
  BY <1>2 DEF Abandoned
<1> QED
  BY <1>1, <1>2

LEMMA PlannedFields ==
  ASSUME config \in ConfigType, NEW m \in Outbox, NEW window \in Windows,
         NEW party \in Nat, NEW now \in Nat
  PROVE  LET p == Planned(m, window, party, now) IN
         /\ p.reminder = "pending" => p.hour = window.start /\ p.party = party
         /\ p.reminder = "sent" => m.reminder = "sent" /\ p.hour = m.hour
         /\ p.moved = m.moved /\ p.cancelled = m.cancelled
<1> DEFINE due == window.start - config.remind_hours
<1>1. CASE due <= now
  BY <1>1, AbandonedFields DEF Planned
<1>2. CASE ~(due <= now) /\ m.reminder = "sent"
  BY <1>2 DEF Planned
<1>3. CASE ~(due <= now) /\ m.reminder # "sent"
  <2>1. Planned(m, window, party, now) =
          [m EXCEPT !.reminder = "pending", !.due = due, !.hour = window.start, !.party = party]
    BY <1>3 DEF Planned
  <2> HIDE DEF due
  <2> QED
    BY <2>1 DEF Outbox
<1> QED
  BY <1>1, <1>2, <1>3

\* A live row that is cancelled, or only changes its attendance.
LEMMA AbandonedAgrees ==
  ASSUME NEW m \in Outbox, NEW a, NEW b, Agree(m, a), IsLive(a), b.status = "cancelled",
         b.window = a.window, b.user = a.user
  PROVE  Agree(Abandoned(m), b)
BY AbandonedFields DEF Agree, Truthful, IsLive

LEMMA MarkedAgrees ==
  ASSUME NEW m, NEW a, NEW b, Agree(m, a), IsLive(a), IsLive(b),
         b.window = a.window, b.user = a.user, b.party_size = a.party_size
  PROVE  Agree(m, b)
BY DEF Agree, Truthful, IsLive

-----------------------------------------------------------------------------
(***************************************************************************)
(* The operations.                                                         *)
(***************************************************************************)
LEMMA CreateBookingAgrees ==
  ASSUME IInv, Agreed, NEW id \in Ids, NEW user \in Guests \cup {NoGuest}, NEW day \in Days,
         NEW minutes, NEW party \in Nat, NEW chosen, NEW now \in Nat,
         CreateBooking(id, user, day, minutes, party, chosen, now)
  PROVE  Agreed'
<1> DEFINE mine == Running(bookings, user, now)
           replacing == ReplacedOn(mine, bookings, day, now)
           window == WindowOf(config, day, minutes)
<1>1. bookings \in [Ids -> Row] /\ messages \in [Ids -> Outbox] /\ config \in ConfigType
  BY InvariantParts DEF Typed
<1>2. PICK table : BookingWrites(id, user, day, minutes, party, now, table)
  BY BookingWritten
<1> DEFINE row == NewRow(table, day, window, party, user, "confirmed")
           written == Taken(id, row, replacing)
<1>3. /\ Orderly(written) /\ window \in Windows
      /\ bookings' \in AfterReplacing(written, {bookings[i].service_day : i \in replacing}, now)
  BY <1>2 DEF BookingWrites
<1>4. Reconciles(written, bookings', now)
  <2> HIDE DEF written
  <2> QED
    BY <1>3, ReplacingReconciles
<1>5. /\ bookings[id].status = "absent"
      /\ messages' = [i \in Ids |->
                        IF i = id /\ user # NoGuest
                        THEN Planned(messages[i], window, party, now)
                        ELSE IF i \in replacing THEN Abandoned(messages[i])
                        ELSE messages[i]]
  BY DEF CreateBooking
<1>6. ASSUME NEW i \in replacing
      PROVE  i \in Ids /\ IsLive(bookings[i])
  BY DEF ReplacedOn, Running, HasFinished, Occupies
<1>7. id \notin replacing /\ Silent(messages[id])
  BY <1>5, <1>6 DEF IsLive, Agreed, AllAgree, Agree
<1>8. /\ row.window = window /\ row.party_size = party /\ row.user = user
      /\ row.status = "confirmed" /\ IsLive(row)
  BY DEF NewRow, IsLive
<1>9. ASSUME NEW i \in Ids
      PROVE  Agree(messages'[i], written[i])
  <2>1. written[i] = IF i = id THEN row
                     ELSE IF i \in replacing THEN [bookings[i] EXCEPT !.status = "cancelled"]
                     ELSE bookings[i]
    BY DEF Taken
  <2>2. Agree(messages[i], bookings[i]) /\ messages[i] \in Outbox /\ bookings[i] \in Row
    BY <1>1 DEF Agreed, AllAgree
  <2> HIDE DEF written, row, replacing, window
  <2>3. CASE i = id /\ user # NoGuest
    <3> DEFINE p == Planned(messages[i], window, party, now)
    <3>1. messages'[i] = p /\ written[i] = row
      BY <2>1, <2>3, <1>5
    <3>2. /\ p.reminder = "pending" => p.hour = window.start /\ p.party = party
          /\ p.reminder # "sent" /\ ~p.cancelled
      BY <2>2, <2>3, <1>1, <1>3, <1>7, PlannedFields DEF Silent
    <3> HIDE DEF p
    <3> QED
      BY <3>1, <3>2, <2>3, <1>8 DEF Agree, Truthful
  <2>4. CASE i = id /\ user = NoGuest
    <3>1. messages'[i] = messages[id] /\ written[i] = row
      BY <2>1, <2>4, <1>5, <1>7
    <3> QED
      BY <3>1, <1>7 DEF Agree, Truthful, Silent
  <2>5. CASE i # id /\ i \in replacing
    <3>1. /\ messages'[i] = Abandoned(messages[i])
          /\ written[i] = [bookings[i] EXCEPT !.status = "cancelled"]
      BY <2>1, <2>5, <1>5
    <3>2. /\ written[i].status = "cancelled" /\ written[i].window = bookings[i].window
          /\ written[i].user = bookings[i].user
      BY <3>1, <2>2 DEF Row
    <3> QED
      BY <3>1, <3>2, <2>2, <2>5, <1>6, AbandonedAgrees
  <2>6. CASE i # id /\ i \notin replacing
    BY <2>1, <2>2, <2>6, <1>5
  <2> QED
    BY <2>3, <2>4, <2>5, <2>6
<1> HIDE DEF written
<1>10. AllAgree(messages', written)
  BY <1>9 DEF AllAgree
<1> QED
  BY <1>4, <1>10, ReconciledAgrees DEF Agreed

LEMMA SetAttendanceAgrees ==
  ASSUME IInv, Agreed, NEW i \in Ids, NEW attendance \in {"confirmed", "arrived", "no_show", "left"},
         NEW now \in Nat, SetAttendance(i, attendance, now)
  PROVE  Agreed'
<1> DEFINE released == ReleasedAt(attendance, bookings[i].window, now)
           changed == [bookings[i] EXCEPT !.status = attendance, !.released_at = released]
           written == [bookings EXCEPT ![i] = changed]
<1>1. attendance \in Statuses \ {"absent"}
  BY DEF Statuses
<1>2. /\ bookings[i] \in Row /\ Orderly(written) /\ messages' = messages
      /\ bookings' \in ReconciledShift(written, changed.service_day, config.tables, blocks, now)
  BY <1>1, AttendanceWritten DEF AttendanceWrites
<1>3. bookings \in [Ids -> Row] /\ IsLive(bookings[i])
  BY InvariantParts DEF Typed, SetAttendance
<1> HIDE DEF released
<1>4. /\ changed.status = attendance /\ changed.window = bookings[i].window
      /\ changed.user = bookings[i].user /\ changed.party_size = bookings[i].party_size
  BY <1>2 DEF Row
<1>5. IsLive(changed)
  BY <1>4 DEF IsLive
<1> HIDE DEF changed
<1>6. AllAgree(messages, written)
  <2>1. ASSUME NEW j \in Ids
        PROVE  Agree(messages[j], written[j])
    <3>1. Agree(messages[j], bookings[j])
      BY DEF Agreed, AllAgree
    <3>2. written[j] = IF j = i THEN changed ELSE bookings[j]
      BY <1>3
    <3> HIDE DEF written
    <3> QED
      BY <3>1, <3>2, <1>3, <1>4, <1>5, MarkedAgrees
  <2> QED
    BY <2>1 DEF AllAgree
<1> HIDE DEF written
<1>7. Reconciles(written, bookings', now)
  BY <1>2, ShiftReconciles DEF Orderly
<1> QED
  BY <1>2, <1>6, <1>7, ReconciledAgrees DEF Agreed

\* A move writes what it queued.
LEMMA MovedAgrees ==
  ASSUME config \in ConfigType, NEW m \in Outbox, NEW b \in Row, Agree(m, b), IsLive(b),
         NEW window \in Windows, NEW table, NEW party \in Nat, NEW now \in Nat
  PROVE  Agree(IF b.user = NoGuest THEN m ELSE MoveMessages(m, b, window, party, now),
               Moved(b, table, window, party))
<1> DEFINE row == Moved(b, table, window, party)
           told == IF window # b.window THEN [m EXCEPT !.moved = window.start] ELSE m
           p == Planned(told, window, party, now)
<1>1. /\ row.window = window /\ row.party_size = party /\ row.user = b.user /\ IsLive(row)
  BY DEF Moved, Row, IsLive
<1>2. /\ told \in Outbox /\ told.reminder = m.reminder /\ told.hour = m.hour
      /\ told.party = m.party /\ told.cancelled = m.cancelled
      /\ told.moved = IF window # b.window THEN window.start ELSE m.moved
  BY DEF Outbox, Windows
<1> HIDE DEF told, row
<1>3. /\ p.reminder = "pending" => p.hour = window.start /\ p.party = party
      /\ p.reminder = "sent" => told.reminder = "sent" /\ p.hour = told.hour
      /\ p.moved = told.moved /\ p.cancelled = told.cancelled
  BY <1>2, PlannedFields
<1> HIDE DEF p
<1>4. ~m.cancelled /\ (m.reminder = "sent" /\ m.hour # b.window.start => m.moved = b.window.start)
  BY DEF Agree, Truthful, IsLive
<1>5. CASE b.user = NoGuest
  <2>1. Silent(m)
    BY <1>5 DEF Agree
  <2> QED
    BY <2>1, <1>5 DEF Agree, Truthful, Silent
<1>6. CASE b.user # NoGuest /\ (window # b.window \/ party # b.party_size)
  <2>1. MoveMessages(m, b, window, party, now) = p
    BY <1>6 DEF MoveMessages, p, told
  <2>2. Truthful(p, row)
    BY <1>1, <1>2, <1>3, <1>4 DEF Truthful
  <2> QED
    BY <2>1, <2>2, <1>1, <1>6 DEF Agree, IsLive, row
<1>7. CASE b.user # NoGuest /\ window = b.window /\ party = b.party_size
  <2>1. MoveMessages(m, b, window, party, now) = m
    BY <1>7 DEF MoveMessages
  <2> QED
    BY <2>1, <1>1, <1>7 DEF Agree, Truthful, IsLive, row
<1> QED
  BY <1>5, <1>6, <1>7

LEMMA MoveBookingAgrees ==
  ASSUME IInv, Agreed, NEW i \in Ids, NEW minutes, NEW party \in Nat, NEW chosen, NEW now \in Nat,
         MoveBooking(i, minutes, party, chosen, now)
  PROVE  Agreed'
<1> DEFINE b == bookings[i]
<1>1. /\ bookings \in [Ids -> Row] /\ messages \in [Ids -> Outbox] /\ config \in ConfigType
      /\ b \in Row /\ IsLive(b)
  BY InvariantParts DEF Typed, MoveBooking, StillHeld, HasFinished, Occupies
<1>2. PICK window, table : MoveWrites(i, minutes, party, now, window, table)
  BY MoveWritten
<1> DEFINE row == Moved(b, table, window, party)
           written == [bookings EXCEPT ![i] = row]
<1>3. /\ Orderly(written) /\ window \in Windows
      /\ bookings' \in ReconciledShift(written, b.service_day, config.tables, blocks, now)
      /\ messages' = IF b.user = NoGuest THEN messages
                     ELSE [messages EXCEPT ![i] =
                             MoveMessages(messages[i], b, window, party, now)]
  BY <1>2 DEF MoveWrites
<1>4. Agree(IF b.user = NoGuest THEN messages[i]
            ELSE MoveMessages(messages[i], b, window, party, now), row)
  <2>1. Agree(messages[i], b) /\ messages[i] \in Outbox
    BY <1>1 DEF Agreed, AllAgree
  <2> HIDE DEF b
  <2> QED
    BY <2>1, <1>1, <1>3, MovedAgrees
<1> HIDE DEF row, b
<1>5. AllAgree(messages', written)
  <2>1. ASSUME NEW j \in Ids
        PROVE  Agree(messages'[j], written[j])
    <3>1. Agree(messages[j], bookings[j])
      BY DEF Agreed, AllAgree
    <3>2. written[j] = IF j = i THEN row ELSE bookings[j]
      BY <1>1
    <3>3. messages'[j] = IF j # i \/ b.user = NoGuest THEN messages[j]
                         ELSE MoveMessages(messages[i], b, window, party, now)
      BY <1>1, <1>3
    <3> HIDE DEF written
    <3>4. CASE j = i
      BY <3>2, <3>3, <3>4, <1>4
    <3>5. CASE j # i
      BY <3>1, <3>2, <3>3, <3>5
    <3> QED
      BY <3>4, <3>5
  <2> QED
    BY <2>1 DEF AllAgree
<1> HIDE DEF written
<1>6. Reconciles(written, bookings', now)
  BY <1>3, ShiftReconciles DEF Orderly
<1> QED
  BY <1>5, <1>6, ReconciledAgrees DEF Agreed

LEMMA SeatWalkInAgrees ==
  ASSUME IInv, Agreed, NEW id \in Ids, NEW day, NEW party, NEW chosen, NEW now,
         SeatWalkIn(id, day, party, chosen, now)
  PROVE  Agreed'
<1>1. bookings \in [Ids -> Row]
  BY InvariantParts DEF Typed
<1>2. PICK table : bookings' = [bookings EXCEPT ![id] =
        NewRow(table, day, WalkInWindow(config, day, now), party, NoGuest, "arrived")]
  BY DEF SeatWalkIn
<1>3. bookings[id].status = "absent" /\ messages' = messages
  BY DEF SeatWalkIn
<1>4. Silent(messages[id])
  BY <1>3 DEF Agreed, AllAgree, Agree
<1>5. \A j \in Ids \ {id} : bookings'[j] = bookings[j]
  BY <1>1, <1>2
<1>6. Agree(messages[id], bookings'[id])
  BY <1>4 DEF Agree, Truthful, Silent
<1> QED
  BY <1>3, <1>5, <1>6 DEF Agreed, AllAgree

LEMMA CancelLockedAgrees ==
  ASSUME IInv, Agreed, NEW i \in Ids, NEW noticed \in BOOLEAN, NEW now,
         noticed => bookings[i].user # NoGuest, IsLive(bookings[i]),
         CancelLocked(i, noticed, now)
  PROVE  Agreed'
<1> DEFINE row == [bookings[i] EXCEPT !.status = "cancelled"]
           written == [bookings EXCEPT ![i] = row]
           m == [Abandoned(messages[i]) EXCEPT !.cancelled = noticed]
<1>1. /\ bookings \in [Ids -> Row] /\ bookings[i] \in Row
      /\ messages \in [Ids -> Outbox] /\ messages[i] \in Outbox
      /\ Agree(messages[i], bookings[i])
  BY InvariantParts DEF Typed, Agreed, AllAgree
<1>2. /\ messages' = [messages EXCEPT ![i] = m]
      /\ bookings' \in ReconciledShift([bookings EXCEPT ![i].status = "cancelled"],
                                       bookings[i].service_day, config.tables, blocks, now)
  BY DEF CancelLocked
<1>3. /\ row \in Row /\ row.status = "cancelled" /\ row.window = bookings[i].window
      /\ row.user = bookings[i].user
  BY <1>1 DEF Row, Statuses
<1>4. Agree(Abandoned(messages[i]), row)
  <2> HIDE DEF row
  <2> QED
    BY <1>1, <1>3, AbandonedAgrees
<1>5. /\ m.reminder = Abandoned(messages[i]).reminder /\ m.hour = Abandoned(messages[i]).hour
      /\ m.party = Abandoned(messages[i]).party /\ m.moved = Abandoned(messages[i]).moved
      /\ m.cancelled = noticed
  BY <1>1, AbandonedFields DEF Outbox
<1> HIDE DEF row, m
<1>6. Agree(m, row)
  BY <1>3, <1>4, <1>5 DEF Agree, Truthful, Silent
<1>7. AllAgree(messages', written)
  <2>1. ASSUME NEW j \in Ids
        PROVE  Agree(messages'[j], written[j])
    <3>1. Agree(messages[j], bookings[j])
      BY DEF Agreed, AllAgree
    <3>2. written[j] = IF j = i THEN row ELSE bookings[j]
      BY <1>1
    <3>3. messages'[j] = IF j = i THEN m ELSE messages[j]
      BY <1>1, <1>2
    <3> HIDE DEF written
    <3> QED
      BY <3>1, <3>2, <3>3, <1>6
  <2> QED
    BY <2>1 DEF AllAgree
<1>8. written \in [Ids -> Row]
  BY <1>1, <1>3
<1> HIDE DEF written
<1>9. Reconciles(written, bookings', now)
  BY <1>2, <1>8, ShiftReconciles DEF written, row
<1> QED
  BY <1>7, <1>9, ReconciledAgrees DEF Agreed

LEMMA DeliverReminderAgrees ==
  ASSUME IInv, Agreed, NEW i \in Ids, NEW now, DeliverReminder(i, now)
  PROVE  Agreed'
<1>1. messages \in [Ids -> Outbox] /\ messages[i] \in Outbox
  BY InvariantParts DEF Typed
<1>2. PICK outcome \in {"sent", "gave_up"} :
        messages' = [messages EXCEPT ![i] = Settled(messages[i], outcome)]
  BY DEF DeliverReminder
<1>3. messages[i].reminder = "pending" /\ bookings' = bookings
  BY DEF DeliverReminder
<1> DEFINE m == Settled(messages[i], outcome)
<1>4. /\ m.reminder = outcome /\ m.moved = messages[i].moved
      /\ m.cancelled = messages[i].cancelled
      /\ outcome = "sent" => m.hour = messages[i].hour
  BY <1>1 DEF Settled, Outbox
<1>5. messages'[i] = m /\ \A j \in Ids \ {i} : messages'[j] = messages[j]
  BY <1>1, <1>2
<1>6. Agree(messages[i], bookings[i])
  BY DEF Agreed, AllAgree
<1> HIDE DEF m
<1>7. Agree(m, bookings[i])
  BY <1>3, <1>4, <1>6 DEF Agree, Truthful, Silent
<1> QED
  BY <1>3, <1>5, <1>7 DEF Agreed, AllAgree

\* The steps that only reconcile.
LEMMA ReconcilingAgrees ==
  ASSUME Agreed, NEW now, Reconciles(bookings, bookings', now), messages' = messages
  PROVE  Agreed'
BY ReconciledAgrees DEF Agreed

-----------------------------------------------------------------------------
(***************************************************************************)
(* The invariant.                                                          *)
(***************************************************************************)
LEMMA AgreedInit ==
  ASSUME Init
  PROVE  Agreed
BY DEF Init, Agreed, AllAgree, Agree, Truthful, Silent, NoMessages, NoRow

LEMMA AgreedStep ==
  ASSUME IInv, Agreed, [Next]_vars
  PROVE  Agreed'
<1>1. Typed /\ clock \in Nat /\ Moments \subseteq Nat /\ bookings \in [Ids -> Row]
  BY DEF IInv, TypeOK, Typed, Moments
<1>2. Unused \subseteq Ids /\ Live \subseteq Ids /\ Parties \subseteq Nat /\ NoGuest \in {NoGuest}
  BY RoomAssumption DEF Unused, Live
<1>3. CASE StaffBooks
  BY <1>1, <1>2, <1>3, CreateBookingAgrees DEF StaffBooks, StaffBook
<1>4. CASE GuestBooks
  <2>1. \A g \in Guests : promise[g].day \in Days
    BY <1>1 DEF Typed
  <2> QED
    BY <2>1, <1>1, <1>2, <1>4, CreateBookingAgrees DEF GuestBooks, GuestBook
<1>5. CASE WalksIn
  BY <1>2, <1>5, SeatWalkInAgrees DEF WalksIn
<1>6. CASE StaffMark
  BY <1>1, <1>2, <1>6, SetAttendanceAgrees DEF StaffMark
<1>7. CASE StaffMove
  BY <1>1, <1>2, <1>7, MoveBookingAgrees DEF StaffMove
<1>8. CASE StaffCancels \/ GuestCancels \/ GuestTapsReminder
  <2>1. PICK now \in Moments, i \in Live, noticed \in BOOLEAN :
          CancelLocked(i, noticed, now) /\ (noticed => bookings[i].user # NoGuest)
    BY <1>8 DEF StaffCancels, StaffCancel, GuestCancels, GuestCancel,
                GuestTapsReminder, CancelReminded
  <2>2. i \in Ids /\ IsLive(bookings[i])
    BY DEF Live
  <2> QED
    BY <2>1, <2>2, CancelLockedAgrees
<1>9. CASE StaffReconcile \/ StaffClose \/ StaffReopen
  <2>1. PICK now, day, closed :
          /\ now \in Moments /\ day \in Days
          /\ bookings' \in ReconciledShift(bookings, day, config.tables, closed, now)
          /\ messages' = messages
    BY <1>9 DEF StaffReconcile, ReconcileShift, StaffClose, BlockTables,
                StaffReopen, UnblockTables
  <2> QED
    BY <2>1, <1>1, ShiftReconciles, ReconcilingAgrees
<1>10. CASE ManagerSaves
  <2>1. PICK now \in Moments, draft \in Drafts : SaveSettings(draft, now)
    BY <1>10 DEF ManagerSaves
  <2>2. messages' = messages
    BY <2>1 DEF SaveSettings
  <2> QED
    BY <2>1, <2>2, <1>1, SaveReconciles, ReconcilingAgrees
<1>11. CASE WorkerDelivers
  BY <1>11, DeliverReminderAgrees DEF WorkerDelivers
<1>12. CASE GuestReads \/ SaveIsLost \/ Tick \/ UNCHANGED vars
  <2>1. bookings' = bookings /\ messages' = messages
    BY <1>12 DEF GuestReads, ReadOffer, SaveIsLost, SaveSettingsLost, Tick, vars
  <2> QED
    BY <2>1 DEF Agreed
<1> QED
  BY <1>3, <1>4, <1>5, <1>6, <1>7, <1>8, <1>9, <1>10, <1>11, <1>12 DEF Next

(***************************************************************************)
(* No reminder waiting to be sent names an hour, a party or a booking that *)
(* is not so; who was reminded of an hour that changed was told the new    *)
(* one; and nobody is told an evening is off while it is on.               *)
(***************************************************************************)
THEOREM MessagesAreTrue == Spec => []MessagesTellTheTruth
<1>1. Agreed => MessagesTellTheTruth
  BY DEF Agreed, AllAgree, Agree, Truthful, MessagesTellTheTruth
<1>2. Spec => []Agreed
  BY InvariantHolds, AgreedInit, AgreedStep, PTL DEF Spec
<1> QED
  BY <1>1, <1>2, PTL
=============================================================================
