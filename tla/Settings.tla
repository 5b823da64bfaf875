------------------------------ MODULE Settings ------------------------------
(***************************************************************************)
(* The rules of the settings screen: how a proposal is settled against the *)
(* room as it is, which proposals are legal, and which bookings new hours  *)
(* would strand.                                                           *)
(*                                                                         *)
(* A config is the part of BarConfig the room depends on:                  *)
(*   tables             [Tables -> [seats, retired]]; a table the bar has  *)
(*                      not bought yet is one of the retired               *)
(*   week               [Days -> [open_minutes, close_minutes, closed]]    *)
(*   turn_minutes, slot_step_minutes, max_party, horizon_days,             *)
(*   remind_hours, grace_minutes                                           *)
(* A draft has the same fields, but its tables are only those it mentions: *)
(* a function from some of the tables to their seats.                      *)
(***************************************************************************)
EXTENDS Allocation, ServiceDays

\* Known table, live or retired, is back in the room with the seats
\* proposed; whatever the proposal leaves out is retired, never deleted.
ResolveTables(draft, current) ==
  [t \in Tables |-> IF t \in DOMAIN draft.tables
                    THEN [seats |-> draft.tables[t], retired |-> FALSE]
                    ELSE [current.tables[t] EXCEPT !.retired = TRUE]]

Resolve(draft, current) == [draft EXCEPT !.tables = ResolveTables(draft, current)]

ActiveTables(config) == {t \in Tables : ~config.tables[t].retired}

HoursAreLegal(hours, turn) ==
  /\ FirstOpen <= hours.open_minutes
  /\ hours.close_minutes <= LastClose
  /\ ~hours.closed => hours.open_minutes <= hours.close_minutes - turn

\* The clauses of ValidConfig::new that the room depends on.
ValidConfig(config) ==
  /\ \A d \in Days : HoursAreLegal(config.week[d], config.turn_minutes)
  /\ ActiveTables(config) # {}
  /\ \A t \in ActiveTables(config) : config.tables[t].seats >= 1
  /\ \E t \in ActiveTables(config) : config.max_party <= config.tables[t].seats

OutsideHours(b, config) ==
  \/ config.week[b.service_day].closed
  \/ b.window.start < Opening(config, b.service_day)
  \/ LatestEnd(config, b.service_day, b.window.end - b.window.start) < b.window.end

\* A mutation: the hours are checked for bookings not begun yet.
ScheduleConflictsAhead(config, book, now) ==
  {i \in DOMAIN book : ~HasStarted(book[i], now) /\ OutsideHours(book[i], config)}

\* The unfinished bookings that new hours cannot honour.
ScheduleConflicts(config, book, now) ==
  {i \in DOMAIN book : ~HasFinished(book[i], now) /\ OutsideHours(book[i], config)}
=============================================================================
