---------------------------- MODULE ServiceDays ----------------------------
(***************************************************************************)
(* The bar's calendar: which shift runs, when it is open, at which minutes *)
(* a party may arrive, and which days a guest may book.                    *)
(*                                                                         *)
(* A service day is a number; its minutes are what the clocks read, counted *)
(* from its midnight, and may run past the next one (a bar that closes at  *)
(* two works yesterday's shift at one).  Clocks may jump once within a day: *)
(* on such a night a minute comes twice or not at all.  Midnights need not *)
(* be equally far apart, for such a day has 23 or 25 hours.                *)
(*                                                                         *)
(* The weekly hours are given per service day: config.week[d].             *)
(***************************************************************************)
EXTENDS Integers

CONSTANTS
  LastDay,     \* the modelled stretch of the calendar is 0..LastDay
  Midnight,    \* the instant each service day begins
  Jump,        \* at: the minutes past midnight when its clocks jump; by: how far
  FirstOpen,   \* the earliest opening the settings accept (LIMITS.open_minutes)
  LastClose    \* the latest closing the settings accept (LIMITS.close_minutes)

Days == 0 .. LastDay

ASSUME CalendarAssumption ==
  /\ LastDay \in Nat
  /\ Midnight \in [Days -> Nat]
  /\ Midnight[0] = 0
  /\ Jump \in [Days -> [at : Nat \ {0}, by : Int]]
  /\ FirstOpen \in Nat
  /\ LastClose \in Nat
  /\ FirstOpen < LastClose

-----------------------------------------------------------------------------
\* Wall clock and instants.

\* What the clocks read, forwards only by what passed and by the jump.
MinutesWithin(day, instant) ==
  LET passed == instant - Midnight[day]
  IN IF passed < Jump[day].at THEN passed ELSE passed + Jump[day].by

\* The minute comes before the jump, after it, or twice.
Before(day, minutes) == minutes < Jump[day].at
After(day, minutes) == Jump[day].at <= minutes - Jump[day].by

\* No clock ever shows a minute that the spring change skips.
Happens(day, minutes) == Before(day, minutes) \/ After(day, minutes)

FirstPass(day, minutes) ==
  Midnight[day] + IF Before(day, minutes) THEN minutes ELSE minutes - Jump[day].by

LastPass(day, minutes) ==
  Midnight[day] + IF After(day, minutes) THEN minutes - Jump[day].by ELSE minutes

\* Of a minute skipped: the moment the clocks jump over it.
PassedOn(day, minutes, pass) ==
  IF Happens(day, minutes) THEN pass ELSE Midnight[day] + Jump[day].at

ResolveBoundary(day, minutes) == PassedOn(day, minutes, FirstPass(day, minutes))

\* The last time the clocks come up to the minute from the one before.
ResolveEnd(day, minutes) ==
  LET last == PassedOn(day, minutes, LastPass(day, minutes))
  IN IF MinutesWithin(day, last - 1) < minutes THEN last ELSE ResolveBoundary(day, minutes)

(***************************************************************************)
(* LIMITS let a shift open no earlier than 08:00 and close no later than   *)
(* 04:00, so a shift is over before the next one may open, even on a night *)
(* an hour longer: bookings of different service days never overlap.       *)
(* Every operation that looks only at a day and its neighbours rests on    *)
(* this.                                                                   *)
(***************************************************************************)
Begins(day) == ResolveBoundary(day, FirstOpen)

Ends(day) == Midnight[day] + LastClose - (IF Jump[day].by < 0 THEN Jump[day].by ELSE 0)

ASSUME ShiftsApartAssumption == \A d, e \in Days : d < e => Ends(d) <= Begins(e)

\* Nor does a shift last into the day after the next: a save, which loads the
\* closed tables from the day before the current shift on, misses none.
ASSUME ShiftsEndAssumption == \A d, e \in Days : d + 1 < e => Ends(d) <= Midnight[e]

\* load_window and load_blocks: the day and its neighbours.
Neighbours(day) == {d \in Days : day - 1 <= d /\ d <= day + 1}

-----------------------------------------------------------------------------

\* The grid: from opening, in steps, up to one turn before closing.
ArrivalMinutes(config, day) ==
  LET hours == config.week[day] IN
  {m \in hours.open_minutes .. hours.close_minutes - config.turn_minutes :
     ~hours.closed /\ (m - hours.open_minutes) % config.slot_step_minutes = 0}

\* Those of the grid that happen: nobody is offered a minute that is skipped.
Arrivals(config, day) == {m \in ArrivalMinutes(config, day) : Happens(day, m)}

\* The window an arrival at `minutes` is promised, from the first time the
\* clocks show it.
WindowOf(config, day, minutes) ==
  [start |-> FirstPass(day, minutes), end |-> FirstPass(day, minutes) + config.turn_minutes]

Opening(config, day) == ResolveBoundary(day, config.week[day].open_minutes)

Closing(config, day) == ResolveEnd(day, config.week[day].close_minutes)

IsOpen(config, day, now) ==
  /\ ~config.week[day].closed
  /\ Opening(config, day) <= now
  /\ now < Closing(config, day)

\* now < shift_end: before closing, or a sitting of the grid still running (in
\* spring the last one holds its table an hour past closing).
ShiftStillRuns(config, day, now) ==
  /\ ~config.week[day].closed
  /\ \/ now < Closing(config, day)
     \/ \E m \in Arrivals(config, day) : now < WindowOf(config, day, m).end

\* The calendar date of an instant.
Today(now) ==
  CHOOSE d \in Days : /\ Midnight[d] <= now
                      /\ \A e \in Days : Midnight[e] <= now => e <= d

CurrentServiceDay(config, now) ==
  LET today == Today(now) IN
  IF today - 1 \in Days /\ ShiftStillRuns(config, today - 1, now) THEN today - 1 ELSE today

GuestMayBook(config, day, now) ==
  LET today == CurrentServiceDay(config, now) IN
  /\ today <= day
  /\ day < today + config.horizon_days
  /\ ~config.week[day].closed

\* One turn from the minute they sat down, cut at closing.
WalkInWindow(config, day, now) ==
  [start |-> now,
   end   |-> IF now + config.turn_minutes < Closing(config, day)
             THEN now + config.turn_minutes ELSE Closing(config, day)]

\* A mutation: no sitting lasts past closing.
LatestEndIsClosing(config, day, minutes) == Closing(config, day)

\* Of a booking that long: closing, or the end of an equal one that came as
\* late as the clocks allow.
LatestEnd(config, day, minutes) ==
  LET close == config.week[day].close_minutes
      sitting == ResolveBoundary(day, close - minutes) + minutes
  IN IF minutes <= close /\ Closing(config, day) < sitting THEN sitting ELSE Closing(config, day)
=============================================================================
