# Pustol in TLA+

Pustol is a table-booking Mini App for one bar: guests book an evening from
Telegram, staff run the shift from the same app, a bot reminds guests and takes
cancellations. The back end is Rust (`crates/`), the front end Next.js (`web/`),
the state PostgreSQL (`migrations/`). This directory holds its TLA+
specification, the TLC configurations that check it, and proofs checked by
TLAPS.

## 1. The system

| Part | State | Operations | What makes it correct |
|---|---|---|---|
| `pustol-domain/allocator.rs` | none (pure) | `occupancy`, `holds`, `free_tables`, `assign`, `seating_is_sound` | one rule of occupancy behind every decision |
| `pustol-domain/reconcile.rs` | none | `reconcile` | no two parties on one table, sound seats stay, nobody stranded beside a free table |
| `pustol-domain/rebooking.rs` | none | `replaced_on`, `refused_on`, `holding_conflict` | one plan per guest, one running booking per guest and evening |
| `pustol-domain/service_day.rs`, `slots.rs` | none | resolving minutes to instants, grid, horizon, walk-in window | shifts past midnight and days of 23/25 hours stay in order; evenings never overlap |
| `pustol-domain/config.rs`, `draft.rs` | none | `resolve`, `ValidConfig::new`, `schedule_conflicts` | an illegal proposal or one that strands bookings is refused |
| `pustol-db/bookings.rs` | `booking`, `table_block` | create, attendance, move, walk-in, cancel (three ways), reconcile, close and reopen tables | one party to a table, one plan to a guest, nobody stranded, history kept, messages true |
| `pustol-db/bar.rs` | `bar`, `bar_table`, hours, roster | `save_settings` | all or nothing; no one reverts another manager's save |
| `pustol-db/notifications.rs`, `pustol-api/worker.rs` | `notification` | queue, plan and abandon a reminder; claim, send, record | messages are true, each is sent about once, none blocks the queue |
| `pustol-db/inbox.rs`, `pustol-api/inbox.rs` | `bot_update`, the poll offset | claim, answer, let go, sweep | no update is answered again while its claim is proof, none blocks the others, the button stays while it is needed |
| `pustol-db/identity.rs`, `pustol-api/auth.rs` | `telegram_user`, `bar_staff` | identify, recognise, claim a staff seat, choose reminders | a seat goes to one person, once |
| `web/lib/reads.ts`, `useRead.ts` | per-question ledger | ask, answer, fail, write, prune | an older answer never replaces a newer one |
| `web/lib/settingsSync.ts` | settings on screen, draft | receive, merge, save | no edit is lost, every conflict is named |

**How the parts meet.** A route reads the clock, then calls one store operation.
A store operation opens a transaction, takes the bar's advisory lock
(`lock_bar`), and only then reads: operations of one bar are serial. Reads (an
evening, the day rail, availability) take no lock. A room operation queues its
messages in its own transaction; the worker drains the outbox without the bar's
lock, under row locks and leases. The guest's screen sends back what it
promised the booking would replace (`check_promise`). PostgreSQL keeps a last
word of its own, the exclusion constraint `booking_one_party_per_table_at_a_time`.

**What is hard here.** The clock is read before the lock is waited for. The
screen is read long before the button is pressed. Every operation looks only at
an evening and its two neighbours. Reseating is one pass over several parties.
A mark undone brings back a party whose table was given away. One reminder row
is rewritten by moves and settled by cancellations, before or after it was sent.
Messages are sent outside any transaction, by a process that may die. Telegram
hands the same update out again until it is confirmed, and reuses its ids. The
app's answers come back in any order, and a save whose answer is lost may still
be carried out. PROJECT.json lists every such
place under `hazards`, with its line and the property about it.

## 2. Modules

| Module | Models | Depends on |
|---|---|---|
| `Allocation` | allocator, reconcile, rebooking: operators over booking rows | - |
| `ServiceDays` | service days, hours, grid, walk-in window, horizon, minutes the clocks skip or repeat | - |
| `Settings` | a proposal, its validation, the bookings it would strand | both above |
| `Room` | the store: bookings, closed tables, settings, what the outbox holds; one action per operation | `Settings` |
| `Outbox` | the queue of messages, the workers that drain it, what Telegram answers | - |
| `Mailbox` | abstract: what the bot promises of an update | - |
| `Inbox` | Telegram's side of the offset, the processes that poll, claim and answer; implements `Mailbox` | `Mailbox` |
| `Roster` | accounts, their profiles, staff seats offered, claimed and withdrawn | - |
| `Ledger` | the rules of `reads.ts`: operators over one question's entry | - |
| `Board` | abstract: what a shift screen promises | - |
| `Screens` | one app reading and writing evenings, the server's snapshots and locks; implements `Board` | `Ledger`, `Board` |
| `Editing` | a manager's draft, its merge with what arrives, the server's saves | `Ledger` |
| `MCRoom`, `MCOutbox`, `MCInbox`, `MCRoster`, `MCScreens`, `MCEditing` | values of the constants for TLC, constraints, views, symmetries | their module |
| `RoomProofs`, `EveningProofs`, `GuestsProofs` | theorems about `Room`: rows and tables, evenings, guests (each extends the one before) | `Room`, TLAPS |
| `OutboxProofs`, `InboxProofs`, `RosterProofs`, `ScreensProofs`, `EditingProofs` | theorems about their modules | their module, TLAPS |

### State and code: the room

`Room` has seven variables. `bookings` maps identities to rows of the booking
table (`absent` before the insert; `cancelled` rows stay, as in the code).
`blocks` is `table_block`. `config` is what the room depends on of `BarConfig`.
`clock` is real time. `messages` holds, per booking, the reminder row with the
words it was last given, the hour of the last move notice, and whether a
cancellation notice was queued. `promise` is what a guest's screen says the next
booking would replace. `lost` records that a transaction under the lock was
refused by the exclusion constraint.

Each store operation is one action: it is a transaction that takes the lock
before it reads. A refused operation rolls back and is no step. The handler's
`now` is any moment at most `MaxWait` old, and every action of the room takes its
own. The action of an operation includes the reconciliation it ends with, the
promise and holdings it checks, and the messages it queues.

Choices a reader should know of:

- `reconcile`'s loop is given by what it answers with: `Reseatings` is the set
  of seatings of all candidates in which each has the table `assign` picks for
  it, against the new seats of the earlier candidates and the old ones of the
  later. There is exactly one; being a set comprehension and not a recursion,
  proofs can use it.
- Identities are naturals. The code draws them at random and only compares them
  to break ties, so the runs insert rows in order of identity.
- A table the bar has not bought yet is a retired one. Retired tables are never
  deleted, as in the code.
- Weekly hours are given per service day, so the rule that a bar may not be
  closed all week does not appear.
- The exclusion constraint is used only where the code relies on it:
  `SaveSettings` needs it, `SaveSettingsLost` is the save it refuses. Everywhere
  else the model does not assume it, and `NoDoubleBooking` shows it is never
  needed.
- `AfterReplacing` reconciles every evening a rebooking gave up, in order of
  date, each on what the one before left. It is a recursive function over the
  days, so that proofs can go along it. There are two such evenings at most: a
  guest holds one plan (`OnePlanPerGuest`), and a no-show is replaced only on the
  evening booked.
- A draft is made from the settings in force; the version guard that enforces
  this is in `Editing`.
- The words of a reminder that was abandoned unsent are forgotten: only
  `plan_reminder` may open the row again, and it writes new ones.
- Clocks jump at most once within a service day, after its midnight (`Jump`);
  a skipped minute is resolved to the moment of the jump, a repeated one to its
  first pass or, for the end of a window, to its last.

`Outbox` looks at the messages alone. `Room` sends a message in one step, as if
the worker held the lock; `Outbox` splits that step. `rows` is the notification
table; a message's text is the hour it names and a version, one per change of
hour or party. `bookings` and `guests` are what the claim reads of a booking (its
hour, whether it is cancelled, whether it has a table) and of its guest's account
(whether they asked for reminders, whether the bot reaches them); marks such as
arrived or left are not read by the outbox and do not appear. `hands` holds what
each worker has claimed: a copy of the row with the lease it was given, and how
far its delivery has come. `told` counts what arrived. One claim is one
statement, hence one action; the call to Telegram, the record of its outcome and
the note on the account are separate actions, and between any two of them the
bar, another worker, the clock or a crash may come. What the bar does is one
action per transaction that touches the queue, with the conditions of `Room`
reduced to what concerns one booking; two changes of one booking are made by
`MoveBooking` (another hour, or at the same hour another party).

A recorded outcome is bound to its claim by the lease and the attempts
(`StillClaimed`). Leases are moments in microseconds; the model's clock is
coarse, so `Distinct` excludes two of them that would be equal only because of
that.

### State and code: the inbox

`Inbox` numbers updates as guests send them, which is not their Telegram id:
`NextIds` gives an update the next id, or any id after a quiet stretch.
`sent` is Telegram's memory (`kept` until confirmed by an offset or too old),
`claims` the table `bot_update`, `pollers` the processes: each `run` loop's
offset, batch, phase and sweep moment, all lost when it dies. `owner` is the
random name a process gives itself; a successor has another. Every call between
the loop and the outside is an action: the poll, the claim (`claim_update`, one
statement), the cancellation under a tap, the answer, the sweep of old claims.
A call may fail before or after it took effect. A failing answer to a message is
tried again until its claim counts more than `ANSWER_RETRIES` attempts. Two
processes may poll at once, and a stop lets the batch settle while a crash does
not.

All taps press the button under one booking's reminder. `booking` is what that
booking has been since: a plan all along; `marked` (arrived, gone, not shown up,
or over); a plan `again`, after staff undid the mark or moved the party; cancelled.
`ChangeBooking` is what staff do to it, at any time; `CalledOff` is what the
cancellation under a tap finds. A tap that meets a mark cancels nothing and still
takes the button away, as in the code, so the button is promised only to a booking
that has been a plan all along (`ButtonUnlessMarked`).

`Mailbox` is what the inbox amounts to: an update is open for some time, may be
answered once while it is, and is closed for good. When it is late it may be
answered again until it is closed. The refinement maps an update to open while
Telegram or a batch has it, and to late if by then it is older than a claim may be
to count.

### State and code: the roster

`signed` is the sequence of payloads Telegram signed, stamped in whole seconds
of a clock that is ahead of the server's by `Drift` (or behind it); requests (`visits`) deliver
them late, repeatedly and in any order. `rows` is `telegram_user`, with the stamp
of the profile stored and whether two payloads of that second contradict each
other; `seats` is `bar_staff`. `SeatOffered` is the part of `identify` before the bar
lock, `Identify` the part under it: `record_profile`, then
`bind_staff_seat`; `Abandon` is a rollback in between. `Recognise` is what a
session does. `SaveRoster` is the part of `save_settings` that offers and
withdraws seats.

### State and code: the screens

A change of the room is a member of `changed`, and an evening's rows are the
numbers of the changes that made them, so that "newer" can be told from "other".
`calls` are the calls under way with the stage the server has reached: a read
takes rows and version on one snapshot; a write takes the bar's lock, reads,
commits or rolls back. Answers are heard in any order or never. `entries` is the
ledger of `reads.ts`; `versioned` says which of its two rules the question
follows (a version from the server, or the order of asking). `Board` says what
the member of staff may rely on: an evening shows a room that was, then only
later ones.

`Editing` holds one manager's screen: `pair` (settings last received, draft),
`during` and `wanted` of the save under way, the ledger entry of the settings,
and the server's `stored` and `version`. A read of the settings is two steps, the
bar's own row with the version and everything else after it, since nothing locks
them. `Stored` is what the server makes of a value. A save that the screen has
given up may still be carried out. Others' saves change one field each.

Bounds are named constants: `MaxTime`, `MaxWait`, `LastCall`, `MaxFaults`,
`MaxWaits`, `MaxActs`, `MaxVersion`, `LastProcess`, `Places`, `MaxSigned`,
`MaxVisits`, `MaxAsked`, `MaxChanges`, `MaxSaves`. `MaxWait` says how old a
handler's `now` may be and stands for the time a lock is waited for.

## 3. Assumptions

`ShiftsApartAssumption`: the latest legal closing of a day, an hour later where
clocks fall back, is not later than the earliest legal opening of the next. The
code has it from `LIMITS` (open no earlier than 08:00, close no later than 04:00
next day); everything that loads only neighbouring days rests on it.
`ShiftsEndAssumption`: nor does a shift last into the day after the next, which
the same limits give; a save loads closed tables from the day before the current
shift on and would miss one otherwise.
`CalendarAssumption`, `TablesAssumption` and `RoomAssumption` say what the
constants are and that the initial settings are valid.

`OutboxAssumption`: a delivery is over before its lease is (`Patience < Lease`).
In the code a batch of twenty, five at a time, twenty seconds each at most, takes
80 seconds of a lease of five minutes. A booking has one reminder row, by the
unique index.

`InboxAssumption`: `KeptFor`, `Remembered` and a batch (`Patience`) together are
shorter than the quiet stretch after which ids start anew: a day, a day and some
minutes against a week. A batch is shorter than a claim is remembered. Ids are at
least one. Nothing is assumed of `Remembered` against `KeptFor`: in the code both
are a day (`updates.rs:14`), and in the runs both are one.

`RosterAssumption`: Telegram's clock differs from the server's by `ClockSkew` at
most (`init_data.rs` refuses payloads from further ahead). `ScreensAssumption`
and `EditingAssumption` only type the constants; storing a stored value changes
nothing.

**Fairness.** None is assumed and no liveness claimed for the room, the roster,
the screens and the settings: nothing in them must happen unless a person acts.
For the outbox weak fairness is assumed of the clock, of each worker's claim and
of each worker's deliveries: `run` loops for ever, pauses twenty seconds at most,
every call has a timeout, and a process that died is started again. For the inbox
it is assumed of each process's poll and of its handling of the update in hand,
for the same reasons; not of time, so `NoneBlocks` holds though no update ever
grows old, and not of success, so it holds though every answer fails. None is
assumed of the bar, the guests, Telegram or the failures.

## 4. Runs

| Run | Instance | Shows |
|---|---|---|
| `seating` | one evening whose clocks skip an arrival, tables of 1 and 2 seats, two rows, two proposals (a table retired; the table back with closing an hour earlier), clock 0..3, `now` up to 1 old | `TypeOK`, `NoDoubleBooking`, `SeatsAreSound`, `NoStrandedOrphan`, `HistoryStands`, `SavesStrandNobody`, `WindowsWithinHours` |
| `holdings` | two evenings, the first repeating an arrival, two tables, three rows of a guest and of staff, stale clocks and screens | `OneEveningPerGuest`, `OnePlanPerGuest`, `RebookingKeepsItsWord`; `NoDoubleBooking`, `NoStrandedOrphan` through chains of rebooking and reseating |
| `messages` | one guest, two rows, an arrival the clocks skip; staff moves, cancellations, reminders | `MessagesTellTheTruth` |
| `outbox` | one booking, its reminder, a notice of each kind and a staff message; two workers, a fault, a rate limit, two acts of the bar | `TypeOK`, `SentMeansDelivered`, `NoReminderEarly`, `TwiceOnlyAfterFault`, `QueueDrains` |
| `inbox` | a tap and a message, two ids, two processes, one fault, clock 0..4 | `TypeOK`, `OnceWhileRemembered`, `ButtonUnlessMarked`, `NoneBlocks`, and that `Inbox` implements `Mailbox` (`KeepsMailbox`) |
| `screens` | two evenings, three calls, two changes of the room | `TypeOK`, `ScreenKeepsUp`, `FailuresAreNews`, and that `Screens` implements `Board` (`KeepsBoard`) |
| `editing` | two fields of three values of which two are stored alike, three calls, two accepted saves | `TypeOK`, `NothingStaysDropped`, `SavesOnlyEdits`, `EditsSurvive`, `NoticeIsTrue` |
| `roster` | two accounts, two usernames, three payloads, two requests at a time, two units to a second, clock 0..3 | `TypeOK`, `SeatsForTheInvited`, `OneSeatEach`, `ProfileIsLastSigned`, `ClaimedByNewestName` |
| `refused_save` | as `seating`, clocks steady | violated: `InventoryNeverRefused` |
| `stranded` | as `seating`, clocks steady, and a proposal that takes a seat from a table | violated: `NoStrandedOrphan` |
| `reminded_cancelled` | as `outbox`, one worker, no faults | violated: `NotRemindedOfCancelled` |
| `answered_twice` | as `inbox`, a tap alone, no faults | violated: `AtMostOnce` |

**Bounds of the room.** Tables interact in pairs and so do parties at a table; a
table of one and a table of two let the allocator prefer, refuse and fall back. A
clock of four instants over a shift of three units with turns of two has arrivals
that overlap, follow and touch; it lets a party be due, sit, leave early and be
history. Three rows are needed for a guest who holds a plan and a no-show and
books again, and for a party that waits while two others change tables. Two
evenings are the day and its neighbour; a rebooking on the second gives up a table
of the first, which must be offered there. `MaxWait` of one is enough for a `now` to
fall on the other side of any boundary. `seating` offers no proposal that takes
seats from a table, for `stranded` shows what such a one does.

**Constraints, views and symmetry.** `InOrder` inserts rows in order of identity.
`OneClosed` closes the larger table only, and none when the clock has stopped;
`OpenInOrder` and `GuestsUnblocked` keep closed tables or staff bookings out of
runs that are about something else. `PlansOrGuest` gives `holdings` two parts:
plans and cancellations of the guest on both evenings and of staff on the first,
at both tables, before the clock moves (`PlansOnly`), and everything that becomes of a guest's
bookings at one table, with one mark at a time (`AtOneTable`). The view
`WithoutMessages` leaves the outbox out of the fingerprint of `holdings`: no action
of the room reads it, and neither do its properties. `WithoutCancelled` (`seating`) leaves
out the columns of cancelled rows, which no operation reads again, and what the
run's properties do not speak of. `FewAtOnce` (`roster`) trades payloads for
requests: two requests meet while two payloads are signed, one when it is three.
`Eventful` (`inbox`) spares what guests, staff and time may do, and leaves the
processes, Telegram and the failures free: the second update comes with the first
or after the quiet stretch, staff change the booking while its tap is under way,
and time passes only while something is still to come. The same instance without
it, 15 million states, has been checked for the invariants too; it takes too long to
keep. Evenings (`screens`), accounts and usernames (`roster`) are told apart by
nothing, so their permutations are symmetries; neither run checks liveness.

**Bounds of the outbox.** `MaxActs` of two is a booking and one change of it,
which is what rewriting a message under its delivery takes; the change may come
until `LastCall`, late enough to fall between a claim and its record. Two workers,
one fault (a crash, a lost answer or a lost record) and one wait asked for by
Telegram reach every pair of outcomes of one row. Hours two and four put one
reminder before and one after the change. Two attempts make the last one differ
from the first. The clock runs to ten: the longest a message can take after the
last call, through a failure, a wait and a lease left by a crash. While the bar
acts the workers may be away for any time; afterwards, for the clock's bound, a
free worker does not let time pass over a message it could take.

**Bounds of the others.** `inbox`: two updates, so that one is behind the other,
and two ids, so that after the quiet stretch of four the second may have the first
one's id. `KeptFor` and `Remembered` are both one, as in the code both are a day,
and `Patience` is one, so that a batch is in hand after Telegram has dropped it and
its claims count no more. `SweepEvery` is two, so that a claim is swept or left for
another update to find. A second process may start beside the first or after its
crash. `answered_twice` needs none of that but two processes.
Of the four kinds of update the run has the tap and the text:
`/start` and group messages take a part of the text's path each. `screens`:
three calls are a write and the reads before and after it, two changes are one's
own and somebody else's; no evening is kept aside, so that pruning happens.
`editing`: a field read with the version and one read after it, and a value the
server trims; two accepted saves are another's and one's own. `roster`: two
payloads of one second and one of the next.

Deadlock is checked in every run of the room, of the roster and of the screens.
The outbox stops when all messages are settled and the clock has run out;
`QueueDrains` says that it does not stop earlier. The inbox likewise, with
`NoneBlocks`; `editing` stops at the bounds on calls and saves. Their runs do not
check deadlock.

## 5. What the runs found

1. **A save may be refused by a constraint it cannot meet** (`refused_save`).
   `reconcile_from` loads bookings with `ends_at > now` only. A party that ends
   at four and one that began at three do not share a table; when the latter is
   moved by a save at four, the table of the former looks free although their
   windows overlap in the past. The write hits the exclusion constraint, and the
   manager's save is rolled back as a lost race, again and again until the later
   party ends. The code says inventory changes are never refused.
2. **One pass may strand two parties** (`stranded`). A party for one has no
   table; a party of two sits at a table of two. A save takes a seat from that
   table. The first party is tried against the second one's old seat and gets
   nothing; then the second party loses its seat, which no longer fits. Both end
   without a table while the table stands empty and would fit the first. The
   next operation that reconciles the evening repairs it.
3. **A guest may be reminded of a cancelled evening** (`reminded_cancelled`). A
   claim copies the reminder; a cancellation that commits before the call to
   Telegram settles the row, not the copy. The window is as long as a delivery
   waits for its turn in the batch. What the claim does guarantee is that the
   outcome is recorded on nobody else's words (`SentMeansDelivered`).
4. **An update may be answered twice** (`answered_twice`). A claim counts for a day
   (`UPDATE_RETENTION`), and Telegram keeps an update for a day. A process answers an
   update and dies before it confirms it; another fetches it in the last moments
   that Telegram keeps it. When that one comes to claim it, the first claim is older
   than a day, so `claim_update` gives it away and the guest is answered again. The
   code says at most once (`inbox.rs`, `handle`) and never twice (the migration of
   the table). The window is as long as a batch is in hand. What holds is
   `OnceWhileRemembered`, and that nothing is answered again once it has been
   settled or dropped (`Mailbox`).

Noticed while modelling, without a run of its own:

- A party without a table can be marked as arrived. Only the screen withholds the
  button; the store writes it.
- An undone mark is not held against the hours: a party marked as left is ignored
  by `schedule_conflicts`, and undone it sits past a closing that has moved.
- A tap while the booking is mistakenly marked finds nothing to cancel, which
  counts as done (`inbox.rs:274`), and takes the button away. When staff then undo the
  mark or move the party the evening is a plan again, and the guest can no longer
  call it off from the reminder (`booking = "again"` without a button is reachable).
  The comments promise the buttons only when a cancellation failed, so this
  contradicts none of them.
- A manager's own save, carried out after its answer was lost, is named as
  somebody else's change if the field has been retyped since; `NoticeIsTrue`
  allows for that.

## 6. Proofs

All theorems hold for every value of the constants that satisfies the
assumptions of section 3, without bounds on tables, rows, evenings, processes,
payloads, calls or time.

**`RoomProofs`** proves

- `TypeCorrect`: `Spec => []TypeOK`. Beside types this says that rows satisfy
  the check constraints of the booking table, and lie within the widest hours of
  their own evening, whatever the hours were when they were written.
- `OneTableOneParty`: `Spec => []NoDoubleBooking`.

The inductive invariant is their conjunction, `IInv`. `NoDoubleBooking` alone is
not inductive: an operation compares a party only with rows of its evening and
the neighbouring ones, so rows of other evenings must be known not to overlap.
That follows from `RowsInTheirShift` (part of `TypeOK`) and
`ShiftsApartAssumption`, by lemma `EveningsApart`; `RowsInTheirShift` in turn
needs `HoursInForce`, because the grid and the walk-in window are computed from
the hours of the day.

The argument, lemma by lemma: what a row holds lies within its window
(`HeldWithinWindow`); a candidate's new table is free of every row loaded
(`CandidateApart`); a reseating therefore keeps rows apart
(`ReseatingKeepsOrder`), also when only the evening and its neighbours were
loaded (`ReconciledShiftKeepsOrder`), and also one evening after another
(`AfterReplacingKeepsOrder`); writing one row that was checked against its
neighbours keeps them apart (`WritingKeepsOrder`). Then one lemma per operation
says that it keeps the invariant, `StepKeeps` combines them, and the two theorems
follow. `SaveSettings` is the one operation whose step relies on the exclusion
constraint, as in the code.

Two proofs go by induction: along the evenings of a rebooking (`EveningByEvening`)
and up the calendar (`TodayIsADay`: the date of an instant exists). Both use sets
of naturals, `OneByOne` and `Least`, which follow from the library's theorem that
the naturals are well-founded.

**`EveningProofs`** proves, from the invariant above:

- `WindowsAreWithinHours`: `Spec => WindowsWithinHours`, `HistoryIsKept`:
  `Spec => HistoryStands`, and `SavesAreSafe`: `Spec => SavesStrandNobody`;
- `SeatsStaySound`: `Spec => []SeatsAreSound`;
- `NobodyIsStranded`: `SeatsOnlyGrow /\ Spec => []NoStrandedOrphan`.

Every operation writes a few rows and then reconciles (`EveryStepReconciles`);
reconciling changes no window, and no row that is not running. What remains for
the first three are the windows that operations write, which come from the grid
or the walk-in window of the hours in force, and the moments they compare: a
handler's `now` is `MaxWait` old at most, so what ended earlier than that is
running to nobody.

For the seats, an operation may leave rows of the evening it writes at tables
that are not sound (`SoundBut`); reconciling that evening settles it and its
neighbours and touches no other (`ShiftSettles`, `ShiftMakesSound`). That a stale
`now` reseats everybody it must follows from `RunningIsLoaded`: what runs at the
real time ran at every earlier `now`. A save closes no evening it has not loaded,
by `ShiftsEndAssumption` (`UnfinishedIsRecent`).

Nobody is stranded by the same path (`ServedBut`, `ShiftServes`). The core is
`ReseatedIsServed`: a party that reconcile leaves without a table could have none
of those free afterwards. It was asked for against the old seats of later
candidates, so it must be shown that such a seat is of no use to it either. A
candidate lost its seat because the table left the room or is closed that
evening, and then it is so for the waiting party too; or because the party no
longer fits. The last is what `PartiesFit` excludes, the conjunct that makes the
property inductive, and it holds exactly as long as no save takes seats from a
table (`SeatsOnlyGrow`). The run `stranded` is a behaviour without that
hypothesis; the drafts of `seating` and `holdings` satisfy it. A walk-in and a
new booking reconcile no evening of their own, and need not: they only take
(`StillServed`).

**`GuestsProofs`** proves

- `OneEvening`, `OnePlan` (`Spec => []OneEveningPerGuest`, `[]OnePlanPerGuest`)
  and `RebookingIsAsPromised` (`Spec => RebookingKeepsItsWord`). The inductive
  invariant `Holdings` is the first two over the rows. It is kept because a stale
  `now` only makes more of a guest's bookings running than there are, so
  `holding_conflict` refuses rather too much, and what a rebooking replaces is
  exactly what would have conflicted.
- `MessagesAreTrue`: `Spec => []MessagesTellTheTruth`. `Agreed` adds that nothing
  waits for a row that is absent, or has no account to write to; each operation's
  messages then agree with the rows it wrote.

**`OutboxProofs`** proves

- `SentWasDelivered`: `Spec => []SentMeansDelivered`;
- `RemindersWait`: `Spec => []NoReminderEarly`, `WordsArriveOnce`:
  `Spec => []TwiceOnlyAfterFault`, and `OutboxIsTyped`: `Spec => []TypeOK`.

The inductive invariant of the first `Inv` adds to the property that a claim which still
matches its row has the row's words, and that what was accepted has arrived.
`RefreshingKeeps` is the step of the bar (a row opened afresh has no attempts, so
no claim matches it), `ClaimKeeps` that of a claim, `CallKeeps` that of a call to
Telegram, and `RecordingKeeps` that of every outcome. It rests on `Distinct`: a
moment a worker writes to a row is the lease of no other claim of it in hand,
which the code has from moments counted in microseconds.

The others rest on `Delivering`. A claim in hand has a lease that has not run
out, so its row is not claimed again (`ClaimsHold`), and of one version of a
message's words there is one claim in hand at most (`OneClaimEach`). What may
arrive once more without a fault (`MayArrive`) has so far arrived no more often
than there were faults (`Counted`), and a row nobody has in hand has an attempt
left unless somebody failed (`RowsHold`), which bounds the attempts.

**`InboxProofs`** proves

- `AnsweredOnceWhileRemembered`: `Spec => []OnceWhileRemembered`;
- `InboxImplementsMailbox`: `Spec => KeepsMailbox`;
- `ButtonStaysUnlessMarked`: `Spec => []ButtonUnlessMarked`;
- `InboxIsTyped`: `Spec => []TypeOK`;

with no hypothesis besides `InboxAssumption`.

The first is far from inductive: what was answered is known to the claim only, the
claim is under an id that later updates may share, and the process that made it may
fetch the update again. The invariant `Inv` speaks of the answers to updates young
enough for their claims to count (`Young`). It says that later updates have later
ids unless a quiet stretch lies between them (`Ordered`), so that of one id only one
update is recent enough to be in anybody's hands (`Recent`, `RecentIsOne`); that
what was answered has a claim that still counts (`Proven`, `Backed`), which makes it
recent (`BackedIsRecent`); that what is being answered was claimed since it was
fetched (`HasClaim`); that no process has in its batch an answered update it claimed
itself (`NotAgain`), because such a process confirms it with its next poll
(`Confirms`); and that names of processes are never reused (`Distinguished`). An
offset stale from before the ids started anew confirms nothing, which `FetchGoes` has
to deal with. When an update ceases to be young its answers drop out of the
invariant, which holds of fewer answers as well (`FewerGood`); what happens to it
then, the model leaves as it is, and `answered_twice` shows it. The refinement
follows step by step: `StepAges` for everything that answers nothing,
`AnswerAnswers` for the answers, which are the first of their update by the
invariant or those of a late one.

That the button stays needs to know only that a cancellation that succeeded leaves
no plan behind, whatever staff do before the button is taken (`Held`).

The types contain one thing that is hard: no update is tried more often than
`ANSWER_RETRIES` allows, but for calls lost after they were committed. A process
lets go of what has failed too often; the count would not be bounded if that
update could come into hand again. That it cannot is the invariant above a second
time, of the updates let go in the place of the updates answered (`Tried`,
`Exhausted`). A claim that outlived the reuse of its id would hand its attempts to
another update; each claim was taken while an update of its id was in hand
(`Sourced`), and the quiet stretch is too long for it to count thereafter.

**`RosterProofs`** proves `SeatIsOfTheInvited`, `SeatIsTheOnlyOne`,
`ProfileIsTheLast` (invariants `SeatsForTheInvited`, `OneSeatEach`,
`ProfileIsLastSigned`) and `ClaimIsOfTheNewest` (`Spec => ClaimedByNewestName`).
The invariant `Inv` says that stamps follow the order of signing
(`StampsAreSound`), that a stored row is what some settled payload said
(`RowsAreOfPayloads`) and that no settled payload is newer than it, or the row is
contested (`NothingIsNewer`). `RosterIsTyped` (`Spec => []TypeOK`) adds `Bounded`:
instants and stamps stay within the clock and the skew.

**`ScreensProofs`** proves

- `ScreensImplementBoard`: `Spec => KeepsBoard`;
- `RecordKeepsUp`: `Spec => []ScreenKeepsUp`, and `FailuresAreTold`:
  `Spec => []FailuresAreNews`;
- `ScreenIsTyped`: `Spec => []TypeOK`.

The invariant `Inv` says that the rows of every answer under way are the room
after as many changes as its version says (`CallsHold`), and the same of what is
on record (`EntriesHold`). Questions without versions are only read, never
written (`OnlyReads`), and of these what was asked later knows at least as much
(`Between`). `StepIs` shows each step to be
a change of the room or one after which every evening shows the same room or a
later one.

**`EditingProofs`** proves all that the run `editing` checks:

- `SavesKeepOthersEdits`: `Spec => SavesOnlyEdits`, `EditsAreKept`:
  `Spec => EditsSurvive`, `NoticesAreTrue`: `Spec => NoticeIsTrue`,
  `DroppedIsMadeUpFor`: `Spec => []NothingStaysDropped`, and `EditingIsTyped`:
  `Spec => []TypeOK`.

A read may be torn: the version is taken before some of the fields. The invariant
therefore says of everything read, sent or on screen not that it is the settings
of a version, but that each field is of that version or a later one
(`Since`, in `ReadsHold`, `SavesHold`, `PairHolds`). A save is accepted only if
its version is the stored one, and of that there is nothing later: so what was
not typed is as it is stored, and only what was typed can change. `ScreenHolds`
ties the draft to the save under way and to what was typed since, which is what
an answer merges. `MadeUp` names, for settings that were dropped, a read under way
or failed that will bring ones as new. `HistoryHolds` keeps what each accepted
save stored, for the notices.

**Only model-checked.** The liveness properties `QueueDrains` and `NoneBlocks`,
which are out of the prover's reach; and `NoStrandedOrphan` without its hypothesis,
which is false (`stranded`). Everything else that a passing run checks is a theorem
above, under the assumptions named there. No module has a recursive operator;
`AfterReplacing` is a recursive function.

## 7. Not modelled

- In `Room`: notes on bookings (nothing reads them), texts and templates, counts on
  the day rail, error codes. Clocks that jump across midnight itself. The bar's time
  zone is fixed: `docs/settings.md:45` says it is not edited, and no screen offers it;
  but `draft.rs:139` checks and `bar.rs:315` writes the one that is sent, so a save made
  through the API with another zone is outside the model.
- In `Roster`: names, photos and languages; the cryptographic checks of init data
  and sessions, which look at one value each.
- In `Screens` and `Editing`: the views, which render what these modules hold, and
  edits inside a list (hours, tables, staff are one field each, as
  `mergeDrafts` treats them). `savedInto` replays edit functions
  (`settingsSync.ts:143`), `SavedInto` the values of whole fields, which is what they
  come to for such fields.
- In `Screens`, what a write does besides answering with its room: `amendSession`
  (`page.tsx:295`) puts an answer straight into the session, a question without a
  version. `WriteShift` is into questions with versions only, so nothing here says how such an answer
  and a read of the session under way get on.
- In `Editing`, two things the screen does that its properties do not depend on.
  Once the session has ended, `refresh` asks nothing again (`page.tsx:272`, `:917`) and
  the end screen is shown in place of the settings; the module has no end of session.
  What a read adds to the notice is joined to what stands there, where `setFolded`
  (`page.tsx:381`) replaces it: `NoticeIsTrue` holds of each name in it, hence of
  fewer.
- JSON conversions (`dto.rs`), parsing and status codes, the HTTP client,
  formatting: pure functions of one value. Start-up, static files and the seed
  keep no state that lives across steps.
- The order in which reachability is written: the code promises none, so no
  property is about it (`Outbox` has the writes).
- `Room` takes its operations as atomic. They are transactions that take the bar
  lock before they read and hold it until they commit; `Screens` has lock, read
  and commit as steps of their own for a write beside reads.
