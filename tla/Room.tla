-------------------------------- MODULE Room --------------------------------
(***************************************************************************)
(* The room of one bar: its bookings, closed tables and settings, and the  *)
(* operations of the store that read and change them.                      *)
(*                                                                         *)
(* Every operation is one transaction.  It takes the bar's advisory lock   *)
(* first and reads the database after that, so operations of one bar never *)
(* interleave and each is one action here; an operation that is refused    *)
(* rolls back and is no step at all.  Two things still come from before    *)
(* the lock and may be out of date once it is held:                        *)
(*   - `now`, read from the clock by the handler: every action takes a now *)
(*     of at most MaxWait ago;                                             *)
(*   - what a guest's screen promised the next booking would replace, read *)
(*     by an earlier request and sent back with the booking (promise).     *)
(*                                                                         *)
(* The exclusion constraint of the booking table is the database's own     *)
(* last word.  Only SaveSettings is written to respect it (and is rolled   *)
(* back when it would not); for every other operation the constraint is    *)
(* not assumed, and NoDoubleBooking says that it never has to speak.       *)
(***************************************************************************)
EXTENDS Settings

CONSTANTS
  Ids,            \* identities of booking rows
  Guests,         \* Telegram accounts
  Parties,        \* party sizes anybody asks for
  InitialConfig,  \* the settings the bar starts with
  Drafts,         \* what the settings screen may propose
  MaxTime,        \* bound: the clock stops here
  MaxWait         \* bound: how old a handler's now may be under the lock

VARIABLES
  bookings,   \* [Ids -> row of the booking table]
  blocks,     \* rows of table_block: pairs of a table and a service day
  config,     \* the settings in force
  clock,      \* the real time
  messages,   \* [Ids -> what the outbox holds about the booking]
  promise,    \* [Guests -> what the guest's screen says a booking replaces]
  lost        \* a transaction under the lock lost to the exclusion constraint

vars == <<bookings, blocks, config, clock, messages, promise, lost>>

-----------------------------------------------------------------------------
(***************************************************************************)
(* Types.                                                                  *)
(***************************************************************************)

Windows == [start : Nat, end : Nat]

Row == [table : Seats, service_day : Days, window : Windows,
        released_at : Nat \cup {NotReleased}, party_size : Nat,
        status : Statuses, user : Guests \cup {NoGuest}]

NoRow == [table |-> NoTable, service_day |-> 0, window |-> [start |-> 0, end |-> 0],
          released_at |-> NotReleased, party_size |-> 0,
          status |-> "absent", user |-> NoGuest]

HoursType == [open_minutes : Nat, close_minutes : Nat, closed : BOOLEAN]

ConfigType == [tables : [Tables -> [seats : Nat, retired : BOOLEAN]],
               week : [Days -> HoursType],
               turn_minutes : Nat \ {0}, slot_step_minutes : Nat \ {0},
               max_party : Nat, horizon_days : Nat,
               remind_hours : Nat, grace_minutes : Nat]

\* A draft mentions some of the tables and gives each its seats.
IsDraft(d) ==
  /\ DOMAIN d.tables \subseteq Tables
  /\ d.tables \in [DOMAIN d.tables -> Nat]
  /\ d \in [tables : {d.tables},
             week : [Days -> HoursType],
             turn_minutes : Nat \ {0}, slot_step_minutes : Nat \ {0},
             max_party : Nat, horizon_days : Nat,
             remind_hours : Nat, grace_minutes : Nat]

NoHour == -1   \* no notice names an hour

\* The reminder of a booking (one row at most) with the moment it is due and
\* the words it was last given; the hour the last move notice names; whether
\* a cancellation notice was queued.
Outbox == [reminder : {"none", "pending", "sent", "gave_up"},
           due : Int, hour : Nat, party : Nat,
           moved : Nat \cup {NoHour}, cancelled : BOOLEAN]

NoMessages == [reminder |-> "none", due |-> 0, hour |-> 0, party |-> 0,
               moved |-> NoHour, cancelled |-> FALSE]

NoPromise == [day |-> 0, replacing |-> {}]

ASSUME RoomAssumption ==
  /\ Ids \subseteq Nat
  /\ NoGuest \notin Guests
  /\ Parties \subseteq Nat
  /\ MaxTime \in Nat
  /\ MaxWait \in Nat
  /\ InitialConfig \in ConfigType
  /\ ValidConfig(InitialConfig)
  /\ \A d \in Drafts : IsDraft(d)

-----------------------------------------------------------------------------
(***************************************************************************)
(* What a transaction loads.                                               *)
(***************************************************************************)

\* A handler's clock reading, taken before it waited for the lock.
Moments == {now \in 0 .. clock : clock - now <= MaxWait}

\* load_window: live bookings of the day and its neighbours.
Around(book, day) ==
  [i \in {j \in Ids : IsLive(book[j]) /\ book[j].service_day \in Neighbours(day)} |-> book[i]]

BlocksAround(closed, day) == {k \in closed : k[2] \in Neighbours(day)}

\* load_unfinished.
Unfinished(book, now) ==
  [i \in {j \in Ids : IsLive(book[j]) /\ now < book[j].window.end} |-> book[i]]

\* running_bookings_of: the bookings of an account whose table is still held.
Running(book, user, now) ==
  {i \in Ids : /\ user # NoGuest
               /\ book[i].user = user
               /\ ~HasFinished(book[i], now)}

-----------------------------------------------------------------------------
(***************************************************************************)
(* Reconciliation as the store runs it: what the bookings may become.      *)
(***************************************************************************)

\* reconcile_shift, over one evening and its neighbours.
ReconciledShift(book, day, tables, closed, now) ==
  {Reseated(book, seat, DOMAIN seat) :
     seat \in Reseatings(Around(book, day), tables, BlocksAround(closed, day), now)}

\* reconcile_from, over everything unfinished.  Bookings whose window has
\* run out are not loaded, neither to be moved nor to stand in the way.
ReconciledFrom(book, cfg, closed, now) ==
  {Reseated(book, seat, DOMAIN seat) :
     seat \in Reseatings(Unfinished(book, now), cfg.tables,
                         {k \in closed : CurrentServiceDay(cfg, now) - 1 <= k[2]}, now)}

-----------------------------------------------------------------------------
(***************************************************************************)
(* The outbox, as far as room operations write it.                         *)
(***************************************************************************)

\* A reminder that will not be sent again.  The words of one never sent are
\* forgotten: the row keeps them, but only plan_reminder may open it again,
\* and it writes new ones.
Settled(m, outcome) ==
  [m EXCEPT !.reminder = outcome, !.due = 0, !.party = 0,
            !.hour = IF outcome = "sent" THEN m.hour ELSE 0]

\* abandon_reminder
Abandoned(m) == IF m.reminder = "pending" THEN Settled(m, "gave_up") ELSE m

\* plan_reminder, for a booking of that window and party.
Planned(m, window, party, now) ==
  LET due == window.start - config.remind_hours IN
  IF due <= now THEN Abandoned(m)
  ELSE IF m.reminder = "sent" THEN m
  ELSE [m EXCEPT !.reminder = "pending", !.due = due,
                 !.hour = window.start, !.party = party]

-----------------------------------------------------------------------------
(***************************************************************************)
(* Taking a booking.                                                       *)
(***************************************************************************)

NewRow(table, day, window, party, user, status) ==
  [table |-> table, service_day |-> day, window |-> window, released_at |-> NotReleased,
   party_size |-> party, status |-> status, user |-> user]

\* The rows once `replacing` are cancelled and row is inserted as id.
Taken(id, row, replacing) ==
  [i \in Ids |-> IF i = id THEN row
                 ELSE IF i \in replacing THEN [bookings[i] EXCEPT !.status = "cancelled"]
                 ELSE bookings[i]]

\* A mutation: the tables of the replaced bookings are offered to nobody.
ReplacingOffersNothing(book, evenings, now) == {book}

\* The evenings of the replaced bookings are reconciled one after another, in
\* order of date: what the rows may be once the evenings before d are.
AfterReplacing(book, evenings, now) ==
  LET after[d \in 0 .. LastDay + 1] ==
        IF d = 0 THEN {book}
        ELSE IF d - 1 \in evenings
        THEN UNION {ReconciledShift(b, d - 1, config.tables, blocks, now) : b \in after[d - 1]}
        ELSE after[d - 1]
  IN after[LastDay + 1]

\* A mutation: the promise on the guest's screen is not compared.
PromiseTakenAsGiven(user, replacing) == TRUE

\* What a guest's screen promised must be what the booking would replace.
PromiseKept(user, replacing) == user # NoGuest => replacing = promise[user].replacing

PartyFits(party) == party >= 1 /\ party <= config.max_party

CreateBooking(id, user, day, minutes, party, chosen, now) ==
  LET mine == Running(bookings, user, now)
      replacing == ReplacedOn(mine, bookings, day, now)
      window == WindowOf(config, day, minutes)
      request == [party_size |-> party, window |-> window, service_day |-> day,
                  tables |-> config.tables, bookings |-> Around(bookings, day),
                  blocks |-> BlocksAround(blocks, day), ignoring |-> replacing]
  IN /\ bookings[id].status = "absent"
     /\ minutes \in Arrivals(config, day)
     /\ PartyFits(party)
     /\ user # NoGuest => GuestMayBook(config, day, now)
     /\ now < window.start
     /\ ~RefusedOn(mine, bookings, day, now)
     /\ PromiseKept(user, replacing)
     /\ \E table \in Tables :
          /\ SeatOf(request, chosen, table)
          /\ bookings' \in
               AfterReplacing(Taken(id, NewRow(table, day, window, party, user, "confirmed"),
                                    replacing),
                              {bookings[i].service_day : i \in replacing}, now)
     /\ messages' = [i \in Ids |->
                       IF i = id /\ user # NoGuest
                       THEN Planned(messages[i], window, party, now)
                       ELSE IF i \in replacing THEN Abandoned(messages[i])
                       ELSE messages[i]]
     /\ UNCHANGED <<blocks, config, clock, promise, lost>>

\* Staff take a telephone booking: no account, no horizon, maybe a table.
StaffBook(id, day, minutes, party, chosen, now) ==
  CreateBooking(id, NoGuest, day, minutes, party, chosen, now)

\* A guest books the evening their screen shows; the room picks the table.
GuestBook(id, g, minutes, party, now) ==
  CreateBooking(id, g, promise[g].day, minutes, party, NoTable, now)

\* The availability screen of one day, read without the lock.
ReadOffer(g, day, now) ==
  /\ promise' = [promise EXCEPT ![g] =
       [day |-> day,
        replacing |-> ReplacedOn(Running(bookings, g, now), bookings, day, now)]]
  /\ UNCHANGED <<bookings, blocks, config, clock, messages, lost>>

-----------------------------------------------------------------------------
(***************************************************************************)
(* Attendance, moves, walk-ins and cancellations.                          *)
(***************************************************************************)

\* A mutation: the table is given back when the tap came, before or after.
AsTapped(moment, window) == moment

Clamp(moment, window) ==
  IF moment < window.start THEN window.start
  ELSE IF window.end < moment THEN window.end ELSE moment

\* When the table goes back to the room; a no-show holds it through grace.
ReleasedAt(attendance, window, now) ==
  LET graced == window.start + config.grace_minutes IN
  CASE attendance = "left"    -> Clamp(now, window)
    [] attendance = "no_show" -> Clamp(IF now < graced THEN graced ELSE now, window)
    [] OTHER                  -> NotReleased

\* A mutation: a restored status takes its table back without asking.
TableNeverAsked(i, changed) == TRUE

\* check_table_free: nobody else holds the table the changed booking holds.
TableStillFree(i, changed) ==
  changed.table # NoTable /\ Occupies(changed)
  => FreeDuring(changed.table, Held(changed), Around(bookings, changed.service_day), {i})

\* check_holdings, after the write.
HoldingsAllowed(book, i, now) ==
  ~HoldingConflict(Running(book, book[i].user, now), book, i, now)

SetAttendance(i, attendance, now) ==
  LET changed == [bookings[i] EXCEPT
                    !.status = attendance,
                    !.released_at = ReleasedAt(attendance, bookings[i].window, now)]
      written == [bookings EXCEPT ![i] = changed]
  IN /\ IsLive(bookings[i])
     /\ TableStillFree(i, changed)
     /\ HoldingsAllowed(written, i, now)
     /\ bookings' \in
          ReconciledShift(written, changed.service_day, config.tables, blocks, now)
     /\ UNCHANGED <<blocks, config, clock, messages, promise, lost>>

\* fetch_unfinished: live, and its table still held.
StillHeld(i, now) == ~HasFinished(bookings[i], now)

\* The window a move to `minutes` asks for is on offer: the one the booking
\* has, or an arrival ahead on the grid for a party that has not begun.
WindowOffered(i, minutes, window, now) ==
  LET b == bookings[i] IN
  IF minutes = MinutesWithin(b.service_day, b.window.start)
  THEN window = b.window
  ELSE /\ ~HasStarted(b, now)
       /\ minutes \in Arrivals(config, b.service_day)
       /\ window = WindowOf(config, b.service_day, minutes)
       /\ now < window.start

\* A new time makes the booking a plan again and clears what was released.
Moved(b, table, window, party) ==
  IF window = b.window
  THEN [b EXCEPT !.table = table, !.party_size = party]
  ELSE [b EXCEPT !.table = table, !.party_size = party, !.window = window,
                 !.status = "confirmed", !.released_at = NotReleased]

\* A mutation: the guest hears of a new time, and the reminder keeps its own.
MoveNoticeOnly(m, b, window, party, now) ==
  IF window # b.window THEN [m EXCEPT !.moved = window.start] ELSE m

\* The messages a move queues for a guest with an account.
MoveMessages(m, b, window, party, now) ==
  LET told == IF window # b.window THEN [m EXCEPT !.moved = window.start] ELSE m IN
  IF window # b.window \/ party # b.party_size
  THEN Planned(told, window, party, now) ELSE told

MoveRequest(b, i, window, party) ==
  [party_size |-> party, window |-> window, service_day |-> b.service_day,
   tables |-> config.tables, bookings |-> Around(bookings, b.service_day),
   blocks |-> BlocksAround(blocks, b.service_day), ignoring |-> {i}]

MoveBooking(i, minutes, party, chosen, now) ==
  LET b == bookings[i] IN
  /\ StillHeld(i, now)
  /\ party # b.party_size => PartyFits(party)
  /\ \E window \in {b.window, WindowOf(config, b.service_day, minutes)} :
       /\ WindowOffered(i, minutes, window, now)
       /\ \E table \in Tables :
            LET written == [bookings EXCEPT ![i] = Moved(b, table, window, party)] IN
            /\ SeatOf(MoveRequest(b, i, window, party), chosen, table)
            /\ HoldingsAllowed(written, i, now)
            /\ bookings' \in
                 ReconciledShift(written, b.service_day, config.tables, blocks, now)
       /\ messages' = IF b.user = NoGuest THEN messages
                      ELSE [messages EXCEPT ![i] =
                              MoveMessages(messages[i], b, window, party, now)]
  /\ UNCHANGED <<blocks, config, clock, promise, lost>>

SeatWalkIn(id, day, party, chosen, now) ==
  LET window == WalkInWindow(config, day, now)
      request == [party_size |-> party, window |-> window, service_day |-> day,
                  tables |-> config.tables, bookings |-> Around(bookings, day),
                  blocks |-> BlocksAround(blocks, day), ignoring |-> {}]
  IN /\ bookings[id].status = "absent"
     /\ PartyFits(party)
     /\ CurrentServiceDay(config, now) = day
     /\ IsOpen(config, day, now)
     /\ \E table \in Tables :
          /\ SeatOf(request, chosen, table)
          /\ bookings' = [bookings EXCEPT ![id] =
                            NewRow(table, day, window, party, NoGuest, "arrived")]
     /\ UNCHANGED <<blocks, config, clock, messages, promise, lost>>

\* A mutation: the table given back is offered to nobody.
CancelWithoutOffering(i, noticed, now) ==
  /\ StillHeld(i, now)
  /\ bookings' = [bookings EXCEPT ![i].status = "cancelled"]
  /\ messages' = [messages EXCEPT ![i] =
                    [Abandoned(messages[i]) EXCEPT !.cancelled = noticed]]
  /\ UNCHANGED <<blocks, config, clock, promise, lost>>

\* cancel_locked, with a notice to the guest or without.
CancelLocked(i, noticed, now) ==
  LET written == [bookings EXCEPT ![i].status = "cancelled"] IN
  /\ StillHeld(i, now)
  /\ bookings' \in
       ReconciledShift(written, bookings[i].service_day, config.tables, blocks, now)
  /\ messages' = [messages EXCEPT ![i] =
                    [Abandoned(messages[i]) EXCEPT !.cancelled = noticed]]
  /\ UNCHANGED <<blocks, config, clock, promise, lost>>

\* Staff cancel, giving a reason or none; only an account can be written to.
StaffCancel(i, reason, now) ==
  CancelLocked(i, reason /\ bookings[i].user # NoGuest, now)

GuestCancel(g, i, now) == bookings[i].user = g /\ CancelLocked(i, FALSE, now)

\* The button under a reminder, which may be pressed long after it came.
CancelReminded(g, i, now) ==
  /\ i \in Running(bookings, g, now)
  /\ bookings[i].status = "confirmed"
  /\ CancelLocked(i, FALSE, now)

-----------------------------------------------------------------------------
(***************************************************************************)
(* Changes to the room itself.                                             *)
(***************************************************************************)

\* Staff ask the room to seat what it owes.
ReconcileShift(day, now) ==
  /\ bookings' \in ReconciledShift(bookings, day, config.tables, blocks, now)
  /\ UNCHANGED <<blocks, config, clock, messages, promise, lost>>

\* A mutation: only the tables are closed; nobody at them is seated again.
BlockOnly(day, asked, now) ==
  /\ asked \subseteq ActiveTables(config)
  /\ blocks' = blocks \cup {<<t, day>> : t \in asked}
  /\ UNCHANGED <<bookings, config, clock, messages, promise, lost>>

BlockTables(day, asked, now) ==
  /\ asked \subseteq ActiveTables(config)
  /\ blocks' = blocks \cup {<<t, day>> : t \in asked}
  /\ bookings' \in ReconciledShift(bookings, day, config.tables, blocks', now)
  /\ UNCHANGED <<config, clock, messages, promise, lost>>

UnblockTables(day, asked, now) ==
  /\ asked \subseteq ActiveTables(config)
  /\ blocks' = blocks \ {<<t, day>> : t \in asked}
  /\ bookings' \in ReconciledShift(bookings, day, config.tables, blocks', now)
  /\ UNCHANGED <<config, clock, messages, promise, lost>>

\* A draft made from the settings in force that may be saved.
MaySave(draft, now) ==
  /\ ValidConfig(Resolve(draft, config))
  /\ ScheduleConflicts(Resolve(draft, config), Unfinished(bookings, now), now) = {}

\* What a save would write.
SavedRooms(draft, now) == ReconciledFrom(bookings, Resolve(draft, config), blocks, now)

SaveSettings(draft, now) ==
  /\ MaySave(draft, now)
  /\ config' = Resolve(draft, config)
  /\ bookings' \in SavedRooms(draft, now)
  /\ Exclusive(bookings')
  /\ UNCHANGED <<blocks, clock, messages, promise, lost>>

\* The exclusion constraint refuses the rows reconcile_from decided on, and
\* the save fails as a lost race (TableTakenConcurrently), under the lock.
SaveSettingsLost(draft, now) ==
  /\ MaySave(draft, now)
  /\ \E book \in SavedRooms(draft, now) : ~Exclusive(book)
  /\ lost' = TRUE
  /\ UNCHANGED <<bookings, blocks, config, clock, messages, promise>>

-----------------------------------------------------------------------------
(***************************************************************************)
(* The worker, as the room sees it: one due reminder is sent or settled.   *)
(* Claims, leases and retries are left out here.                           *)
(***************************************************************************)
DeliverReminder(i, now) ==
  LET b == bookings[i]
      m == messages[i]
      upcoming == IsLive(b) /\ ~HasStarted(b, now)
  IN /\ m.reminder = "pending"
     /\ m.due <= now
     /\ upcoming => b.table # NoTable
     /\ \E outcome \in IF upcoming THEN {"sent", "gave_up"} ELSE {"gave_up"} :
          messages' = [messages EXCEPT ![i] = Settled(m, outcome)]
     /\ UNCHANGED <<bookings, blocks, config, clock, promise, lost>>

Tick ==
  /\ clock < MaxTime
  /\ clock' = clock + 1
  /\ UNCHANGED <<bookings, blocks, config, messages, promise, lost>>

-----------------------------------------------------------------------------

Init ==
  /\ bookings = [i \in Ids |-> NoRow]
  /\ blocks = {}
  /\ config = InitialConfig
  /\ clock = 0
  /\ messages = [i \in Ids |-> NoMessages]
  /\ promise = [g \in Guests |-> NoPromise]
  /\ lost = FALSE

Minutes == FirstOpen .. LastClose

Unused == {id \in Ids : bookings[id].status = "absent"}
Live == {i \in Ids : IsLive(bookings[i])}

StaffBooks ==
  \E now \in Moments, id \in Unused, day \in Days, minutes \in Minutes,
     party \in Parties, chosen \in Seats : StaffBook(id, day, minutes, party, chosen, now)

GuestBooks ==
  \E now \in Moments, id \in Unused, g \in Guests, minutes \in Minutes, party \in Parties :
     GuestBook(id, g, minutes, party, now)

GuestReads == \E now \in Moments, g \in Guests, day \in Days : ReadOffer(g, day, now)

WalksIn ==
  \E now \in Moments, id \in Unused, day \in Days, party \in Parties, chosen \in Seats :
     SeatWalkIn(id, day, party, chosen, now)

StaffMark ==
  \E now \in Moments, i \in Live, attendance \in {"confirmed", "arrived", "no_show", "left"} :
     SetAttendance(i, attendance, now)

StaffMove ==
  \E now \in Moments, i \in Live, minutes \in Minutes, party \in Parties, chosen \in Seats :
     MoveBooking(i, minutes, party, chosen, now)

StaffCancels == \E now \in Moments, i \in Live, reason \in BOOLEAN : StaffCancel(i, reason, now)

GuestCancels == \E now \in Moments, i \in Live, g \in Guests : GuestCancel(g, i, now)

GuestTapsReminder == \E now \in Moments, i \in Live, g \in Guests : CancelReminded(g, i, now)

StaffReconcile == \E now \in Moments, day \in Days : ReconcileShift(day, now)

StaffClose ==
  \E now \in Moments, day \in Days, asked \in SUBSET Tables : BlockTables(day, asked, now)

StaffReopen ==
  \E now \in Moments, day \in Days, asked \in SUBSET Tables : UnblockTables(day, asked, now)

ManagerSaves == \E now \in Moments, draft \in Drafts : SaveSettings(draft, now)

SaveIsLost == \E now \in Moments, draft \in Drafts : SaveSettingsLost(draft, now)

WorkerDelivers == \E now \in Moments, i \in Ids : DeliverReminder(i, now)

Next ==
  \/ StaffBooks \/ GuestBooks \/ GuestReads \/ WalksIn
  \/ StaffMark \/ StaffMove \/ StaffCancels \/ GuestCancels \/ GuestTapsReminder
  \/ StaffReconcile \/ StaffClose \/ StaffReopen \/ ManagerSaves \/ SaveIsLost
  \/ WorkerDelivers \/ Tick

Spec == Init /\ [][Next]_vars

-----------------------------------------------------------------------------
Typed ==
  /\ bookings \in [Ids -> Row]
  /\ blocks \subseteq Tables \X Days
  /\ config \in ConfigType
  /\ clock \in Nat
  /\ messages \in [Ids -> Outbox]
  /\ promise \in [Guests -> [day : Days, replacing : SUBSET Ids]]
  /\ lost \in BOOLEAN

\* A row's window is not empty and lies within the hours any settings allow
\* its evening; the moment its table was given back lies in the window.
InItsShift(b) ==
  /\ Begins(b.service_day) <= b.window.start
  /\ b.window.start < b.window.end
  /\ b.window.end <= Ends(b.service_day)
  /\ b.released_at # NotReleased =>
       b.window.start <= b.released_at /\ b.released_at <= b.window.end

RowsInTheirShift == \A i \in Ids : bookings[i].status # "absent" => InItsShift(bookings[i])

HoursInForce == \A d \in Days : HoursAreLegal(config.week[d], config.turn_minutes)

(***************************************************************************)
(* The type invariant: every variable has its type, every row satisfies    *)
(* the check constraints of the booking table, lies within its own shift   *)
(* (walk-ins are cut at closing, moves and bookings stay on the grid), and *)
(* the hours in force are within LIMITS.  Days never overlap because of it.*)
(***************************************************************************)
TypeOK == Typed /\ RowsInTheirShift /\ HoursInForce

(***************************************************************************)
(* One table, one party, one moment: no two rows occupy a table at once,   *)
(* although create, move, restore and reconcile each look only at the      *)
(* evening and its neighbours, and reconcile moves several parties at once *)
(* (bookings.rs, check_table_free: a conflict under the lock is impossible *)
(* without the exclusion constraint).                                      *)
(***************************************************************************)
NoDoubleBooking == Exclusive(bookings)

RunningNow(i) == ~HasFinished(bookings[i], clock)

(***************************************************************************)
(* A party whose evening is still ahead or under way sits at a table that  *)
(* is in the room, open that evening and large enough for it: whatever     *)
(* closes, shrinks or retires a table, and whatever brings a party back to *)
(* one (a restored status), is followed by reconciliation.                 *)
(***************************************************************************)
SeatsAreSound ==
  \A i \in Ids : RunningNow(i) /\ bookings[i].table # NoTable
                 => SeatingIsSound(bookings[i], config.tables, blocks)

\* The room's question about a booking as it stands.
OwnRequest(i) ==
  [party_size |-> bookings[i].party_size, window |-> bookings[i].window,
   service_day |-> bookings[i].service_day, tables |-> config.tables,
   bookings |-> bookings, blocks |-> blocks, ignoring |-> {i}]

(***************************************************************************)
(* No party is left without a table next to one it could have: a table     *)
(* given back is offered, in the same transaction, to whoever the room     *)
(* owes one (bookings.rs, cancel_booking).                                 *)
(***************************************************************************)
NoStrandedOrphan ==
  \A i \in Ids : RunningNow(i) /\ bookings[i].table = NoTable
                 => FreeTables(OwnRequest(i)) = {}

(***************************************************************************)
(* A save never puts a party outside the hours (config.rs, ScheduleConflict:*)
(* such a change is refused): whatever attendance was corrected while the  *)
(* settings were on screen, and however long the save waited for the lock. *)
(***************************************************************************)
SavesStrandNobody ==
  [][config' # config => \A i \in Ids : RunningNow(i) => ~OutsideHours(bookings[i], config')]_vars

(***************************************************************************)
(* Every window the room gives lies within the hours it was given under,   *)
(* as a later save will judge them: also on the nights when the clocks     *)
(* jump, and a party leaves an hour after the bar has closed or the bar    *)
(* closes an hour after the party has left (config.rs, conflict_for).      *)
(***************************************************************************)
WindowsWithinHours ==
  [][\A i \in Ids : bookings'[i].window # bookings[i].window =>
       ~OutsideHours(bookings'[i], config')]_vars

(***************************************************************************)
(* What a guest may hold (rebooking.rs, holding_conflict): one running     *)
(* booking an evening, whoever took, moved or restored them, and however   *)
(* old the clock reading was that decided it.                              *)
(***************************************************************************)
OneEveningPerGuest ==
  \A g \in Guests : \A i, j \in Running(bookings, g, clock) :
     i # j => bookings[i].service_day # bookings[j].service_day

\* And one plan: one confirmed booking that has not begun.
OnePlanPerGuest ==
  \A g \in Guests : \A i, j \in Running(bookings, g, clock) :
     i # j => ~(IsPlan(bookings[i], clock) /\ IsPlan(bookings[j], clock))

(***************************************************************************)
(* What the bot is about to tell a guest is true.  A reminder waiting to   *)
(* be sent is of a live booking and names its hour and party; a guest      *)
(* reminded of an hour that was then changed has been told the new one;    *)
(* nobody is told their evening is off while it is not.                    *)
(***************************************************************************)
MessagesTellTheTruth ==
  \A i \in Ids :
    LET b == bookings[i]
        m == messages[i]
    IN /\ m.reminder = "pending" =>
            IsLive(b) /\ m.hour = b.window.start /\ m.party = b.party_size
       /\ m.reminder = "sent" /\ m.hour # b.window.start => m.moved = b.window.start
       /\ m.cancelled => b.status = "cancelled"

(***************************************************************************)
(* A booking that was over before any handler's clock was read is history: *)
(* nothing moves it, unless staff correct its status (reconcile.rs: a      *)
(* booking from last Friday cannot be moved, it already happened).         *)
(***************************************************************************)
LongOver(i) == IsLive(bookings[i]) /\ HasFinished(bookings[i], clock - MaxWait)

HistoryStands ==
  [][\A i \in Ids : LongOver(i) /\ bookings'[i].status = bookings[i].status
                    /\ bookings'[i].released_at = bookings[i].released_at
                    => bookings'[i] = bookings[i]]_vars

(***************************************************************************)
(* A rebooking drops what the guest's screen said it would and nothing     *)
(* else of theirs, and never a party that has sat down: whatever staff did *)
(* between the screen and the button, the guest does not end with two      *)
(* evenings, with none, or without the table they are sitting at.          *)
(***************************************************************************)
Dropped(g) == {i \in Ids : /\ bookings[i].user = g
                           /\ IsLive(bookings[i]) /\ ~IsLive(bookings'[i])}

Booked(g) == {i \in Ids : ~IsLive(bookings[i]) /\ bookings'[i].user = g /\ IsLive(bookings'[i])}

RebookingKeepsItsWord ==
  [][\A g \in Guests : Booked(g) # {} =>
       /\ Dropped(g) = promise[g].replacing
       /\ \A i \in Dropped(g) : bookings[i].status \in {"confirmed", "no_show"}]_vars

-----------------------------------------------------------------------------
(***************************************************************************)
(* What the documents say and the code does not do (see the README).       *)
(***************************************************************************)

\* reconcile.rs: inventory changes are applied and the bookings reconciled,
\* never refused; bookings.rs: a lost race is impossible under the bar lock.
InventoryNeverRefused == ~lost
=============================================================================
